---- MODULE Spec2Model ----
(***************************************************************************)
(* Model of the mail handling and domain-identity code of the email        *)
(* server: the inbound SMTP receiver, the outbound send handler and the    *)
(* per-domain identity (DKIM configuration) store, in the three storage    *)
(* variants of the repository: MySQL-backed, Sequelize-backed and          *)
(* file-backed.                                                            *)
(***************************************************************************)
EXTENDS Integers, Sequences, FiniteSets, TLC

(***************************************************************************)
(* Bounds of the model.                                                    *)
(***************************************************************************)
MaxSessions == 2      \* concurrent inbound SMTP sessions
MaxPayload  == 3      \* largest payload, in chunks
MaxProcs    == 3      \* API requests and direct calls, numbered by arrival
MaxTime     == 0      \* largest value read from the clock (Date.now())
MaxKeys     == 2      \* RSA key pairs generated
MaxIds      == 2      \* storage ids handed out to domains
MaxSends    == 2      \* send requests
MaxRandom   == 1      \* largest value of Math.floor(Math.random() * 10000)

(***************************************************************************)
(* Program constants, in chunks of payload (10MB is 2 chunks).             *)
(***************************************************************************)
ConfiguredMaxMessageSize == 2   \* limits.maxMessageSize of the configuration
FallbackMaxMessageSize   == 2   \* size of the fallback listener

Variants    == {"mysql", "sequelize", "file"}
SQLVariants == {"mysql", "sequelize"}

Sessions == 1..MaxSessions
Procs    == 1..MaxProcs

DomainNames == {"example.com", "mathsnap.org"}
Users       == {"user", "ghost"}
NoAddr      == [user |-> "", domain |-> ""]
Addresses   == [user : Users, domain : DomainNames]
Absent      == "absent"

\* address.split('@')[1]
DomainOf(address) == address.domain

VARIABLES
  variant,      \* which of the three implementations runs
  domains,      \* domains table / domainsData.domains: sequence of [id, name]
  emails,       \* emails table / emailsData.emails: set of addresses
  configs,      \* domain_configs table / domainConfigsData.domains: sequence
  keyCount,     \* number of key pairs generated so far
  messages,     \* messages table / message files: set of records
  nextId,       \* next storage id
  listener,     \* "none", "main" or "fallback"
  serverSize,   \* the size option of the listener
  sess,         \* SMTP sessions
  proc,         \* API requests in progress
  transporter,  \* the module-level transporter variable
  transportLog, \* the messages handed to transporter.sendMail
  accepted,     \* the send requests whose sendMail call resolved
  nextReq,      \* number of the next send request
  postfix,      \* the Postfix files and the MTA on the host
  virtualDomains, \* data/virtual_domains.json: the list of entries
  dnsRecords,   \* what the resolver answers for each query
  emailConfig   \* email_configs: the config_value of 'default_config'

vars == <<variant, domains, emails, configs, keyCount, messages, nextId,
          listener, serverSize, sess, proc, transporter, transportLog,
          accepted, nextReq, postfix, virtualDomains, dnsRecords, emailConfig>>

envVars   == <<dnsRecords, emailConfig>>
hostVars  == <<postfix, virtualDomains, envVars>>
storeVars == <<domains, emails, configs, keyCount>>
apiVars   == <<proc, transporter, transportLog, accepted, nextReq>>
smtpVars  == <<listener, serverSize, sess>>

Range(seq) == {seq[i] : i \in DOMAIN seq}

\* domainModel.getDomainByName / domains.some(d => d.name === name)
getDomainByName(name) == \E i \in DOMAIN domains : domains[i].name = name

(***************************************************************************)
(* Inbound receiver                                                        *)
(***************************************************************************)
IdleSession == [pc |-> "awaiting", to |-> NoAddr, from |-> NoAddr,
                wellFormed |-> TRUE, size |-> 0, declared |-> FALSE,
                buffered |-> 0, sizeExceeded |-> FALSE, dbFailed |-> FALSE]

\* emailModel.getEmailByAddress / getEmailByAddress
getEmailByAddress(address) == address \in emails

\* isValidEmail of the file-backed server: the domain is hosted
isValidEmail(address) == getDomainByName(DomainOf(address))

\* the row that the MySQL createMessage inserts: no status column
createMessage(id, origin, from, to, sent) ==
  [id |-> id, origin |-> origin, fromEmail |-> from, toEmail |-> to,
   sent |-> sent, read |-> "false", status |-> Absent, folder |-> "db"]

\* the JSON file that the file-backed onData writes: no sent, no status field
inboundFile(id, origin, from, to) ==
  [id |-> id, origin |-> origin, fromEmail |-> from, toEmail |-> to,
   sent |-> Absent, read |-> "false", status |-> Absent, folder |-> "inbox"]

\* the values Date.now() can return
Clock == 0..MaxTime

\* `${Date.now()}_${Math.floor(Math.random() * 10000)}`: one id per pair
Randoms == 0..MaxRandom
FileId(t, r) == t * (MaxRandom + 1) + r

\* the path of a message file: MESSAGES_DIR/<to>/<id>.json for the inbox,
\* MESSAGES_DIR/<from>/sent/<id>.json for a sent item
FilePath(m) ==
  <<IF m.folder = "sent" THEN m.fromEmail ELSE m.toEmail, m.folder, m.id>>

\* fs.writeFileSync(path, ...): a file already at the path is replaced
writeFileSync(file) ==
  {m \in messages : FilePath(m) # FilePath(file)} \cup {file}

\* createSMTPServer: the configuration is loaded (cfgOk) or the catch branch
\* builds the fallback listener; the file-backed server reads its
\* configuration synchronously and has no fallback
createSMTPServer(cfgOk) ==
  /\ listener = "none"
  /\ cfgOk \/ variant \in SQLVariants
  /\ listener' = IF cfgOk THEN "main" ELSE "fallback"
  /\ serverSize' = IF cfgOk THEN ConfiguredMaxMessageSize
                            ELSE FallbackMaxMessageSize
  /\ UNCHANGED <<variant, hostVars, storeVars, messages, nextId, sess, apiVars>>

\* MAIL FROM: the size option makes the listener refuse a declared SIZE
\* above it; a session that declares nothing goes on to DATA
MailFrom(s, to, from, wf, size, declared) ==
  /\ listener # "none"
  /\ sess[s].pc = "awaiting"
  /\ sess' = [sess EXCEPT ![s] =
       [IdleSession EXCEPT !.to = to, !.from = from, !.wellFormed = wf,
          !.size = size, !.declared = declared,
          !.pc = IF declared /\ size > serverSize THEN "rejected"
                                                  ELSE "buffering"]]
  /\ UNCHANGED <<variant, hostVars, storeVars, messages, nextId, listener,
                 serverSize, apiVars>>

\* stream.on('data'): mailData += chunk; the stream only flags sizeExceeded
OnData(s) ==
  /\ sess[s].pc = "buffering"
  /\ sess[s].buffered < sess[s].size
  /\ sess' = [sess EXCEPT ![s].buffered = @ + 1,
                          ![s].sizeExceeded = (sess[s].buffered + 1 > serverSize)]
  /\ UNCHANGED <<variant, hostVars, storeVars, messages, nextId, listener,
                 serverSize, apiVars>>

\* stream.on('end'): the main listener starts simpleParser, the fallback
\* listener calls callback() at once
OnEnd(s) ==
  /\ sess[s].pc = "buffering"
  /\ sess[s].buffered = sess[s].size
  /\ sess' = [sess EXCEPT ![s].pc =
                IF listener = "fallback" THEN "acked" ELSE "parsing"]
  /\ UNCHANGED <<variant, hostVars, storeVars, messages, nextId, listener,
                 serverSize, apiVars>>

\* MySQL: simpleParser resolves, parsedMail.to.value[0].address is read
ParsedMySQL(s) ==
  /\ variant = "mysql"
  /\ sess[s].pc = "parsing"
  /\ sess' = [sess EXCEPT ![s].pc =
                IF sess[s].wellFormed /\ sess[s].to # NoAddr
                  THEN "lookup" ELSE "rejected"]
  /\ UNCHANGED <<variant, hostVars, storeVars, messages, nextId, listener,
                 serverSize, apiVars>>

\* MySQL: await emailModel.getEmailByAddress(to); the result is not used;
\* then parsedMail.from.value[0].address is read
LookupMySQL(s, dbOk) ==
  /\ variant = "mysql"
  /\ sess[s].pc = "lookup"
  /\ sess' = [sess EXCEPT ![s].pc =
                IF dbOk /\ sess[s].from # NoAddr THEN "storing" ELSE "rejected",
                          ![s].dbFailed = ~dbOk]
  /\ UNCHANGED <<variant, hostVars, storeVars, messages, nextId, listener,
                 serverSize, apiVars>>

\* MySQL: await messageModel.createMessage(messageData)
StoreMySQL(s, dbOk) ==
  /\ variant = "mysql"
  /\ sess[s].pc = "storing"
  /\ IF dbOk
       THEN /\ messages' = messages \cup
                 {createMessage(nextId, <<"smtp", s>>, sess[s].from,
                                sess[s].to, "false")}
            /\ nextId' = nextId + 1
            /\ sess' = [sess EXCEPT ![s].pc = "persisted"]
       ELSE /\ sess' = [sess EXCEPT ![s].pc = "rejected", ![s].dbFailed = TRUE]
            /\ UNCHANGED <<messages, nextId>>
  /\ UNCHANGED <<variant, hostVars, storeVars, listener, serverSize, apiVars>>

\* MySQL: callback()
AckMySQL(s) ==
  /\ variant = "mysql"
  /\ sess[s].pc = "persisted"
  /\ sess' = [sess EXCEPT ![s].pc = "acked"]
  /\ UNCHANGED <<variant, hostVars, storeVars, messages, nextId, listener,
                 serverSize, apiVars>>

\* Sequelize: after simpleParser the handler evaluates chunk.toString(),
\* chunk is not in scope: ReferenceError, the catch calls callback(error)
ParsedSequelize(s) ==
  /\ variant = "sequelize"
  /\ sess[s].pc = "parsing"
  /\ sess' = [sess EXCEPT ![s].pc = "rejected"]
  /\ UNCHANGED <<variant, hostVars, storeVars, messages, nextId, listener,
                 serverSize, apiVars>>

\* file-backed: after simpleParser everything is synchronous: the message is
\* written only when the domain of To is hosted, callback() in both cases
ParsedFile(s, t, r) ==
  /\ variant = "file"
  /\ sess[s].pc = "parsing"
  /\ IF ~sess[s].wellFormed \/ sess[s].to = NoAddr
       THEN /\ sess' = [sess EXCEPT ![s].pc = "rejected"]
            /\ UNCHANGED <<messages, nextId>>
       ELSE IF ~isValidEmail(sess[s].to)
         THEN /\ sess' = [sess EXCEPT ![s].pc = "acked"]
              /\ UNCHANGED <<messages, nextId>>
         ELSE IF sess[s].from = NoAddr
           THEN /\ sess' = [sess EXCEPT ![s].pc = "rejected"]
                /\ UNCHANGED <<messages, nextId>>
           ELSE /\ messages' = writeFileSync(
                     inboundFile(FileId(t, r), <<"smtp", s>>, sess[s].from,
                                 sess[s].to))
                /\ UNCHANGED nextId
                /\ sess' = [sess EXCEPT ![s].pc = "acked"]
  /\ UNCHANGED <<variant, hostVars, storeVars, listener, serverSize, apiVars>>

\* payloads of the sessions: a malformed payload has no readable header; a
\* SIZE declaration is only distinguished when it is above the limit
Recipients == {[user |-> "user", domain |-> "example.com"],
               [user |-> "ghost", domain |-> "example.com"],
               [user |-> "user", domain |-> "other.org"], NoAddr}
Senders    == {[user |-> "user", domain |-> "other.org"], NoAddr}
Payloads   ==
  {p \in [to : Recipients, from : Senders, wf : BOOLEAN,
          size : 1..MaxPayload, declared : BOOLEAN] :
     /\ (~p.wf => p.to = NoAddr /\ p.from = NoAddr)
     /\ (p.declared => p.size > ConfiguredMaxMessageSize)}

NextInbound ==
  \/ \E cfgOk \in BOOLEAN : createSMTPServer(cfgOk)
  \/ \E s \in Sessions, p \in Payloads :
          MailFrom(s, p.to, p.from, p.wf, p.size, p.declared)
  \/ \E s \in Sessions : OnData(s)
  \/ \E s \in Sessions : OnEnd(s)
  \/ \E s \in Sessions : ParsedMySQL(s)
  \/ \E s \in Sessions, dbOk \in BOOLEAN : LookupMySQL(s, dbOk)
  \/ \E s \in Sessions, dbOk \in BOOLEAN : StoreMySQL(s, dbOk)
  \/ \E s \in Sessions : AckMySQL(s)
  \/ \E s \in Sessions : ParsedSequelize(s)
  \/ \E s \in Sessions, t \in Clock, r \in Randoms : ParsedFile(s, t, r)

(***************************************************************************)
(* Postfix configuration: render and apply                                 *)
(***************************************************************************)
\* the text of a main.cf: the one the host came with, the one configurePostfix
\* renders for a domain (mydomain = ${domain}), the one rendered for the
\* virtual domains
OriginalMainCf == [kind |-> "original", mydomain |-> ""]
VirtualMainCf  == [kind |-> "virtual", mydomain |-> ""]
postfixConfig(domain) == [kind |-> "single", mydomain |-> domain]

\* /etc/postfix/main.cf, the latest main.cf.backup.*, the maps under
\* /etc/postfix, __dirname/temp_postfix_config, the /tmp/postfix_config_*
\* files, and the number of reloads and restarts of the MTA
PostfixInstalled ==
  [mainCf |-> OriginalMainCf, backup |-> OriginalMainCf, backups |-> 0,
   maps |-> "original", tempConfigFile |-> OriginalMainCf, tmp |-> {},
   reloads |-> 0]

NoResult == [success |-> FALSE, error |-> "", command_error |-> <<>>]
NoApply  == [content |-> OriginalMainCf, restart |-> FALSE, tempFile |-> 0,
             backedUp |-> FALSE, stage |-> "none", result |-> NoResult]

(***************************************************************************)
(* Domain identity store and the domain routes                             *)
(***************************************************************************)
NoConfig == [domainName |-> "", active |-> FALSE, dkimSelector |-> 0 - 1,
             dkimKey |-> 0, dkimVerified |-> Absent, spfVerified |-> Absent,
             mxVerified |-> Absent]

\* an answer of the resolver: the records, or the code of the error thrown
Answer(records) == [code |-> "", records |-> records]
Failure(code)   == [code |-> code, records |-> <<>>]
NotFoundAnswer  == Failure("ENOTFOUND")
\* no zone is known to the resolver: every query is answered ENOTFOUND
NoRecords == <<>>

\* results.checks as checkDNSConfiguration initialises it
Unchecked == [status |-> "unchecked", records |-> <<>>, error |-> ""]
NoResults == [mx |-> Unchecked, spf |-> Unchecked, dkim |-> Unchecked,
              dmarc |-> Unchecked, ptr |-> Unchecked, healthScore |-> 0]

\* a JSON value: an object with its fields, or a scalar
Object(fields) == [kind |-> "object", fields |-> fields, value |-> ""]
Scalar(value)  == [kind |-> "scalar", fields |-> <<>>, value |-> value]
isObject(item) == item.kind = "object"
Field(key, item) == [key |-> key, item |-> item]

\* defaultEmailConfig of initializeDatabase, the fields the requests change
defaultEmailConfig ==
  Object(<<Field("inbound", Object(<<Field("port", Scalar("25")),
                                     Field("hostname", Scalar("localhost"))>>)),
           Field("limits", Object(<<Field("maxRecipients", Scalar("50"))>>))>>)

IdleProc == [pc |-> "idle", op |-> "none", name |-> "", id |-> 0,
             from |-> NoAddr, to |-> NoAddr, rid |-> 0, row |-> NoConfig,
             direct |-> FALSE, resp |-> "none", apply |-> NoApply,
             results |-> NoResults, newConfig |-> Scalar(""),
             domain |-> <<>>, aliasEmail |-> <<>>,
             mergedConfig |-> Scalar("")]

\* request p has not arrived yet, and it is the next to arrive
Free(p) ==
  /\ proc[p].pc = "idle"
  /\ \A q \in Procs : q < p => proc[q].pc # "idle"

\* request p is not in progress
Quiescent(p) == proc[p].pc \in {"idle", "done"}

\* a finished request: its response (or, for a direct call, its outcome)
Done(p, resp) == [proc[p] EXCEPT !.pc = "done", !.resp = resp]

ConfigsFor(name) == SelectSeq(configs, LAMBDA c : c.domainName = name)

\* getDomainConfigByName: rows[0] || null, domains.find(...)
getDomainConfigByName(name) ==
  IF ConfigsFor(name) = <<>> THEN NoConfig ELSE Head(ConfigsFor(name))

\* the row inserted by the MySQL createDomainConfig and by DomainConfig.create
\* with its beforeCreate hook: inactive, nothing verified
newDomainConfig(name, selector, key) ==
  [domainName |-> name, active |-> FALSE, dkimSelector |-> selector,
   dkimKey |-> key, dkimVerified |-> "false", spfVerified |-> "false",
   mxVerified |-> "false"]

\* the entry built by the file-backed createDomainConfig: active, and it has
\* no verification flags
newConfig(name, selector, key) ==
  [domainName |-> name, active |-> TRUE, dkimSelector |-> selector,
   dkimKey |-> key, dkimVerified |-> Absent, spfVerified |-> Absent,
   mxVerified |-> Absent]

\* the domain_configs table without the UNIQUE constraint on domain_name
UniqueViolation_None(name) == FALSE

\* UNIQUE (domain_name) of domain_configs / unique: true of DomainConfig
UniqueViolation(name) == ConfigsFor(name) # <<>>

\* FOREIGN KEY (domain_name) REFERENCES domains(name)
ForeignKeyViolation(name) == ~getDomainByName(name)

\* an uncommitted insert of another transaction holds the lock on the key
InsertPending(p, name) ==
  \E q \in Procs \ {p} : proc[q].pc = "cdc_commit" /\ proc[q].name = name

PendingFor(name) ==
  \E q \in Procs : proc[q].pc = "cdc_commit" /\ proc[q].name = name

\* POST / of the MySQL routes up to the first query: getDomainByName
PostDomain(p, name) ==
  /\ variant = "mysql"
  /\ Free(p)
  /\ proc' = [proc EXCEPT ![p] =
       IF getDomainByName(name)
         THEN [IdleProc EXCEPT !.op = "postDomain", !.name = name,
                 !.pc = "done", !.resp = "400 Domain already exists"]
         ELSE [IdleProc EXCEPT !.op = "postDomain", !.name = name,
                 !.pc = "cd_create"]]
  /\ UNCHANGED <<variant, hostVars, storeVars, messages, nextId, smtpVars,
                 transporter, transportLog, accepted, nextReq>>

\* domainModel.createDomain: the insert into domains, name is UNIQUE
createDomain(p) ==
  /\ proc[p].pc = "cd_create"
  /\ nextId <= MaxIds
  /\ IF getDomainByName(proc[p].name)
       THEN /\ proc' = [proc EXCEPT ![p] = Done(p, "500 Failed to add domain")]
            /\ UNCHANGED <<domains, nextId>>
       ELSE /\ domains' = Append(domains, [id |-> nextId, name |-> proc[p].name])
            /\ nextId' = nextId + 1
            /\ proc' = [proc EXCEPT ![p].pc = "cdc_select"]
  /\ UNCHANGED <<variant, hostVars, emails, configs, keyCount, messages, smtpVars,
                 transporter, transportLog, accepted, nextReq>>

\* a direct call of the MySQL createDomainConfig(domainName)
CallCreateDomainConfig(p, name) ==
  /\ variant = "mysql"
  /\ Free(p)
  /\ proc' = [proc EXCEPT ![p] =
       [IdleProc EXCEPT !.op = "createDomainConfig", !.name = name,
          !.direct = TRUE, !.pc = "cdc_select"]]
  /\ UNCHANGED <<variant, hostVars, storeVars, messages, nextId, smtpVars,
                 transporter, transportLog, accepted, nextReq>>

\* createDomainConfig, the check for an existing row: it is returned as it
\* is; otherwise generateDKIMKeys and the selector from the clock
createDomainConfigSelect(p) ==
  /\ proc[p].pc = "cdc_select"
  /\ IF ConfigsFor(proc[p].name) # <<>>
       THEN /\ proc' = [proc EXCEPT ![p] =
                 [Done(p, IF proc[p].direct THEN "returned" ELSE "201")
                    EXCEPT !.row = Head(ConfigsFor(proc[p].name))]]
            /\ UNCHANGED keyCount
       ELSE /\ keyCount < MaxKeys
            /\ keyCount' = keyCount + 1
            /\ \E t \in Clock :
                 proc' = [proc EXCEPT ![p].pc = "cdc_insert",
                   ![p].row = newDomainConfig(proc[p].name, t, keyCount + 1)]
  /\ UNCHANGED <<variant, hostVars, domains, emails, configs, messages, nextId,
                 smtpVars, transporter, transportLog, accepted, nextReq>>

\* createDomainConfig, the INSERT: it waits for a pending insert of the same
\* name, and fails on the UNIQUE and FOREIGN KEY constraints (rollback, throw)
createDomainConfigInsert(p) ==
  /\ proc[p].pc = "cdc_insert"
  /\ ~InsertPending(p, proc[p].name)
  /\ proc' = [proc EXCEPT ![p] =
       IF UniqueViolation(proc[p].name) \/ ForeignKeyViolation(proc[p].name)
         THEN [Done(p, IF proc[p].direct THEN "threw" ELSE "500 Failed to add domain")
                 EXCEPT !.row = NoConfig]
         ELSE [proc[p] EXCEPT !.pc = "cdc_commit"]]
  /\ UNCHANGED <<variant, hostVars, storeVars, messages, nextId, smtpVars,
                 transporter, transportLog, accepted, nextReq>>

\* createDomainConfig, the catch: generateDKIMKeys or a query throws, the
\* transaction of createDomainConfig is rolled back and the error rethrown;
\* the route answers 500
createDomainConfigThrows(p) ==
  /\ proc[p].pc \in {"cdc_select", "cdc_insert"}
  /\ proc' = [proc EXCEPT ![p] =
       [Done(p, IF proc[p].direct THEN "threw" ELSE "500 Failed to add domain")
          EXCEPT !.row = NoConfig]]
  /\ UNCHANGED <<variant, hostVars, storeVars, messages, nextId, smtpVars,
                 transporter, transportLog, accepted, nextReq>>

\* createDomainConfig, the commit: the row becomes visible and is returned
createDomainConfigCommit(p) ==
  /\ proc[p].pc = "cdc_commit"
  /\ configs' = Append(configs, proc[p].row)
  /\ proc' = [proc EXCEPT ![p] =
       Done(p, IF proc[p].direct THEN "returned" ELSE "201")]
  /\ UNCHANGED <<variant, hostVars, domains, emails, keyCount, messages, nextId,
                 smtpVars, transporter, transportLog, accepted, nextReq>>

\* POST / of the Sequelize routes up to Domain.findOne
PostDomainSequelize(p, name) ==
  /\ variant = "sequelize"
  /\ Free(p)
  /\ proc' = [proc EXCEPT ![p] =
       IF getDomainByName(name)
         THEN [IdleProc EXCEPT !.op = "postDomain", !.name = name,
                 !.pc = "done", !.resp = "400 Domain already exists"]
         ELSE [IdleProc EXCEPT !.op = "postDomain", !.name = name,
                 !.pc = "sq_tx"]]
  /\ UNCHANGED <<variant, hostVars, storeVars, messages, nextId, smtpVars,
                 transporter, transportLog, accepted, nextReq>>

\* the transaction of the Sequelize POST /: Domain.create and
\* DomainConfig.create commit together or not at all
PostDomainTransaction(p) ==
  /\ proc[p].pc = "sq_tx"
  /\ IF getDomainByName(proc[p].name)
       THEN /\ proc' = [proc EXCEPT ![p] = Done(p, "500 Failed to add domain")]
            /\ UNCHANGED <<domains, nextId, configs, keyCount>>
       ELSE /\ nextId <= MaxIds
            /\ keyCount < MaxKeys
            /\ domains' = Append(domains, [id |-> nextId, name |-> proc[p].name])
            /\ nextId' = nextId + 1
            /\ keyCount' = keyCount + 1
            /\ \E t \in Clock :
                 /\ configs' = Append(configs,
                      newDomainConfig(proc[p].name, t, keyCount + 1))
                 /\ proc' = [proc EXCEPT ![p] =
                      [Done(p, "201") EXCEPT
                         !.row = newDomainConfig(proc[p].name, t, keyCount + 1)]]
  /\ UNCHANGED <<variant, hostVars, emails, messages, smtpVars,
                 transporter, transportLog, accepted, nextReq>>

\* the transaction of the Sequelize POST / when DomainConfig.create throws
\* (the key generation of the beforeCreate hook, or the insert): the
\* transaction is rolled back, Domain.create included
PostDomainTransactionThrows(p) ==
  /\ proc[p].pc = "sq_tx"
  /\ proc' = [proc EXCEPT ![p] = Done(p, "500 Failed to add domain")]
  /\ UNCHANGED <<variant, hostVars, storeVars, messages, nextId, smtpVars,
                 transporter, transportLog, accepted, nextReq>>

\* DomainConfig.createForDomain up to findOne: an existing row is returned
createForDomain(p, name) ==
  /\ variant = "sequelize"
  /\ Free(p)
  /\ proc' = [proc EXCEPT ![p] =
       IF ConfigsFor(name) # <<>>
         THEN [IdleProc EXCEPT !.op = "createForDomain", !.name = name,
                 !.direct = TRUE, !.pc = "done", !.resp = "returned",
                 !.row = Head(ConfigsFor(name))]
         ELSE [IdleProc EXCEPT !.op = "createForDomain", !.name = name,
                 !.direct = TRUE, !.pc = "sq_create"]]
  /\ UNCHANGED <<variant, hostVars, storeVars, messages, nextId, smtpVars,
                 transporter, transportLog, accepted, nextReq>>

\* DomainConfig.create of createForDomain: the beforeCreate hook generates
\* the keys, then the insert is subject to the constraints
createForDomainCreate(p) ==
  /\ proc[p].pc = "sq_create"
  /\ keyCount < MaxKeys
  /\ keyCount' = keyCount + 1
  /\ IF UniqueViolation(proc[p].name) \/ ForeignKeyViolation(proc[p].name)
       THEN /\ proc' = [proc EXCEPT ![p] = Done(p, "threw")]
            /\ UNCHANGED configs
       ELSE \E t \in Clock :
              /\ configs' = Append(configs,
                   newDomainConfig(proc[p].name, t, keyCount + 1))
              /\ proc' = [proc EXCEPT ![p] =
                   [Done(p, "returned") EXCEPT
                      !.row = newDomainConfig(proc[p].name, t, keyCount + 1)]]
  /\ UNCHANGED <<variant, hostVars, domains, emails, messages, nextId, smtpVars,
                 transporter, transportLog, accepted, nextReq>>

\* the file-backed createDomainConfig(domainName): always new keys and a new
\* selector, always pushed
createDomainConfig(name, t) ==
  /\ keyCount < MaxKeys
  /\ keyCount' = keyCount + 1
  /\ configs' = Append(configs, newConfig(name, t, keyCount + 1))

\* POST /api/domains of the file-backed server up to await dns.resolve
PostDomainFile(p, name) ==
  /\ variant = "file"
  /\ Free(p)
  /\ proc' = [proc EXCEPT ![p] =
       IF getDomainByName(name)
         THEN [IdleProc EXCEPT !.op = "postDomain", !.name = name,
                 !.pc = "done", !.resp = "400 Domain already exists"]
         ELSE [IdleProc EXCEPT !.op = "postDomain", !.name = name,
                 !.pc = "f_resolved"]]
  /\ UNCHANGED <<variant, hostVars, storeVars, messages, nextId, smtpVars,
                 transporter, transportLog, accepted, nextReq>>

\* the rest of POST /api/domains: push the domain (id from the clock),
\* saveData, createDomainConfig(name)
PostDomainFileAdd(p) ==
  /\ proc[p].pc = "f_resolved"
  /\ Len(domains) < MaxIds
  /\ \E t \in Clock : domains' = Append(domains, [id |-> t, name |-> proc[p].name])
  /\ \E t \in Clock :
       /\ createDomainConfig(proc[p].name, t)
       /\ proc' = [proc EXCEPT ![p] =
            [Done(p, "201") EXCEPT
               !.row = newConfig(proc[p].name, t, keyCount + 1)]]
  /\ UNCHANGED <<variant, hostVars, emails, messages, nextId, smtpVars,
                 transporter, transportLog, accepted, nextReq>>

\* the rest of POST /api/domains when createDomainConfig(name) throws (the
\* key generation): the domain has been pushed and saved, the catch answers
\* 500
PostDomainFileAddThrows(p) ==
  /\ proc[p].pc = "f_resolved"
  /\ Len(domains) < MaxIds
  /\ \E t \in Clock : domains' = Append(domains, [id |-> t, name |-> proc[p].name])
  /\ proc' = [proc EXCEPT ![p] = Done(p, "500 Failed to add domain")]
  /\ UNCHANGED <<variant, hostVars, emails, configs, keyCount, messages, nextId, smtpVars,
                 transporter, transportLog, accepted, nextReq>>

\* GET /api/domains/configs of the file-backed server
GetDomainConfigs(p) ==
  /\ variant = "file"
  /\ Free(p)
  /\ \E t \in Clock :
       /\ createDomainConfig("mathsnap.org", t)
       /\ proc' = [proc EXCEPT ![p] =
            [IdleProc EXCEPT !.op = "getConfigs", !.name = "mathsnap.org",
               !.pc = "done", !.resp = "200",
               !.row = newConfig("mathsnap.org", t, keyCount + 1)]]
  /\ UNCHANGED <<variant, hostVars, domains, emails, messages, nextId, smtpVars,
                 transporter, transportLog, accepted, nextReq>>

\* a direct call of the file-backed createDomainConfig(domainName)
CallCreateDomainConfigFile(p, name) ==
  /\ variant = "file"
  /\ Free(p)
  /\ \E t \in Clock :
       /\ createDomainConfig(name, t)
       /\ proc' = [proc EXCEPT ![p] =
            [IdleProc EXCEPT !.op = "createDomainConfig", !.name = name,
               !.direct = TRUE, !.pc = "done", !.resp = "returned",
               !.row = newConfig(name, t, keyCount + 1)]]
  /\ UNCHANGED <<variant, hostVars, domains, emails, messages, nextId, smtpVars,
                 transporter, transportLog, accepted, nextReq>>

RemoveAt(seq, i) == [j \in 1..(Len(seq) - 1) |-> IF j < i THEN seq[j] ELSE seq[j + 1]]

DomainIds == {d.id : d \in Range(domains)} \cup {0 - 1}

NameOfId(id) ==
  LET i == CHOOSE i \in DOMAIN domains :
             domains[i].id = id /\ \A j \in 1..(i - 1) : domains[j].id # id
  IN domains[i].name

\* DELETE /:id of the MySQL and Sequelize routes up to the lookup by id
DeleteDomain(p, id) ==
  /\ variant \in SQLVariants
  /\ Free(p)
  /\ proc' = [proc EXCEPT ![p] =
       IF \E d \in Range(domains) : d.id = id
         THEN [IdleProc EXCEPT !.op = "deleteDomain", !.id = id,
                 !.pc = "dd_delete"]
         ELSE [IdleProc EXCEPT !.op = "deleteDomain", !.id = id,
                 !.pc = "done", !.resp = "404 Domain not found"]]
  /\ UNCHANGED <<variant, hostVars, storeVars, messages, nextId, smtpVars,
                 transporter, transportLog, accepted, nextReq>>

\* domainModel.deleteDomain / domain.destroy: DELETE FROM domains WHERE id,
\* the foreign keys cascade to emails and domain_configs
deleteDomain(p) ==
  /\ proc[p].pc = "dd_delete"
  /\ IF \E d \in Range(domains) : d.id = proc[p].id
       THEN LET name == NameOfId(proc[p].id) IN
            /\ ~PendingFor(name)
            /\ domains' = SelectSeq(domains, LAMBDA d : d.id # proc[p].id)
            /\ emails' = {e \in emails : DomainOf(e) # name}
            /\ configs' = SelectSeq(configs, LAMBDA c : c.domainName # name)
       ELSE UNCHANGED <<domains, emails, configs>>
  /\ proc' = [proc EXCEPT ![p] = Done(p, "200")]
  /\ UNCHANGED <<variant, hostVars, keyCount, messages, nextId, smtpVars,
                 transporter, transportLog, accepted, nextReq>>

\* DELETE /api/domains/:id of the file-backed server: the domain and its
\* emails are removed, domain_configs.json is not touched
DeleteDomainFile(p, id) ==
  /\ variant = "file"
  /\ Free(p)
  /\ IF \E d \in Range(domains) : d.id = id
       THEN LET i == CHOOSE i \in DOMAIN domains :
                  domains[i].id = id /\ \A j \in 1..(i - 1) : domains[j].id # id
            IN /\ domains' = RemoveAt(domains, i)
               /\ emails' = {e \in emails : DomainOf(e) # domains[i].name}
               /\ proc' = [proc EXCEPT ![p] =
                    [IdleProc EXCEPT !.op = "deleteDomain", !.id = id,
                       !.name = domains[i].name, !.pc = "done", !.resp = "200"]]
       ELSE /\ proc' = [proc EXCEPT ![p] =
                    [IdleProc EXCEPT !.op = "deleteDomain", !.id = id,
                       !.pc = "done", !.resp = "404 Domain not found"]]
            /\ UNCHANGED <<domains, emails>>
  /\ UNCHANGED <<variant, hostVars, configs, keyCount, messages, nextId, smtpVars,
                 transporter, transportLog, accepted, nextReq>>

\* POST /:name/verify of the MySQL routes up to getDomainByName
VerifyDomain(p, name) ==
  /\ variant = "mysql"
  /\ Free(p)
  /\ proc' = [proc EXCEPT ![p] =
       IF getDomainByName(name)
         THEN [IdleProc EXCEPT !.op = "verify", !.name = name, !.pc = "v_config"]
         ELSE [IdleProc EXCEPT !.op = "verify", !.name = name,
                 !.pc = "done", !.resp = "404 Domain not found"]]
  /\ UNCHANGED <<variant, hostVars, storeVars, messages, nextId, smtpVars,
                 transporter, transportLog, accepted, nextReq>>

\* POST /:id/verify of the Sequelize routes up to Domain.findByPk
VerifyDomainSequelize(p, id) ==
  /\ variant = "sequelize"
  /\ Free(p)
  /\ proc' = [proc EXCEPT ![p] =
       IF \E d \in Range(domains) : d.id = id
         THEN [IdleProc EXCEPT !.op = "verify", !.id = id,
                 !.name = NameOfId(id), !.pc = "v_config"]
         ELSE [IdleProc EXCEPT !.op = "verify", !.id = id,
                 !.pc = "done", !.resp = "404 Domain not found"]]
  /\ UNCHANGED <<variant, hostVars, storeVars, messages, nextId, smtpVars,
                 transporter, transportLog, accepted, nextReq>>

\* verify: the lookup of the domain configuration
VerifyGetConfig(p) ==
  /\ proc[p].pc = "v_config"
  /\ proc' = [proc EXCEPT ![p] =
       IF getDomainConfigByName(proc[p].name) = NoConfig
         THEN Done(p, "404 Domain configuration not found")
         ELSE [proc[p] EXCEPT !.pc = "v_update",
                 !.row = getDomainConfigByName(proc[p].name)]]
  /\ UNCHANGED <<variant, hostVars, storeVars, messages, nextId, smtpVars,
                 transporter, transportLog, accepted, nextReq>>

\* updateDomainConfigVerification writing all four columns, a flag that is
\* not supplied as false
updateDomainConfigVerification_AllColumns(name, status) ==
  [i \in DOMAIN configs |->
     IF configs[i].domainName = name
       THEN [configs[i] EXCEPT
               !.dkimVerified = IF status.dkimVerified # Absent
                                  THEN status.dkimVerified ELSE "false",
               !.spfVerified = IF status.spfVerified # Absent
                                 THEN status.spfVerified ELSE "false",
               !.mxVerified = IF status.mxVerified # Absent
                                THEN status.mxVerified ELSE "false",
               !.active = status.active = "true"]
       ELSE configs[i]]

\* updateDomainConfigVerification(domainName, verificationStatus): only the
\* supplied flags are written, to the rows of that domain name
updateDomainConfigVerification(name, status) ==
  [i \in DOMAIN configs |->
     IF configs[i].domainName = name
       THEN [configs[i] EXCEPT
               !.dkimVerified = IF status.dkimVerified # Absent
                                  THEN status.dkimVerified ELSE @,
               !.spfVerified = IF status.spfVerified # Absent
                                 THEN status.spfVerified ELSE @,
               !.mxVerified = IF status.mxVerified # Absent
                                THEN status.mxVerified ELSE @,
               !.active = IF status.active # Absent
                            THEN status.active = "true" ELSE @]
       ELSE configs[i]]

\* the simulated verification of the verify routes
verification == [dkimVerified |-> "true", spfVerified |-> "true",
                 mxVerified |-> "true", active |-> "true"]

\* verify: the update of the configuration (MySQL: by domain name;
\* Sequelize: the instance that was read)
VerifyUpdate(p) ==
  /\ proc[p].pc = "v_update"
  /\ configs' =
       IF variant = "mysql"
         THEN updateDomainConfigVerification(proc[p].name, verification)
         ELSE [i \in DOMAIN configs |->
                 IF configs[i].dkimKey = proc[p].row.dkimKey
                   THEN [configs[i] EXCEPT !.dkimVerified = "true",
                           !.spfVerified = "true", !.mxVerified = "true",
                           !.active = TRUE]
                   ELSE configs[i]]
  /\ proc' = [proc EXCEPT ![p] = Done(p, "200")]
  /\ UNCHANGED <<variant, hostVars, domains, emails, keyCount, messages, nextId,
                 smtpVars, transporter, transportLog, accepted, nextReq>>

\* the verificationStatus objects a caller can pass: each property true,
\* false or undefined
Supplied == {"true", "false", Absent}

StatusFields == {"dkimVerified", "spfVerified", "mxVerified", "active"}

\* a call supplies no property, one property, or all four
VerificationStatuses ==
  {st \in [StatusFields -> Supplied] :
     Cardinality({f \in StatusFields : st[f] # Absent}) \in {0, 1, 4}}

\* a direct call of updateDomainConfigVerification(domainName, status): the
\* UPDATE of the rows of that name
CallUpdateDomainConfigVerification(p, name, status) ==
  /\ variant = "mysql"
  /\ Free(p)
  /\ configs' = updateDomainConfigVerification(name, status)
  /\ proc' = [proc EXCEPT ![p] =
       [IdleProc EXCEPT !.op = "updateVerification", !.name = name,
          !.pc = "done", !.resp = "returned"]]
  /\ UNCHANGED <<variant, hostVars, domains, emails, keyCount, messages, nextId,
                 smtpVars, transporter, transportLog, accepted, nextReq>>

\* POST / of the email routes: the domain must exist, the address be new
createEmail(address) ==
  /\ getDomainByName(DomainOf(address))
  /\ address \notin emails
  /\ emails' = emails \cup {address}
  /\ UNCHANGED <<variant, hostVars, domains, configs, keyCount, messages, nextId,
                 smtpVars, apiVars>>

(***************************************************************************)
(* Outbound sender                                                         *)
(***************************************************************************)
SenderNotFound      == "404 Sender email not found"
DomainNotConfigured == "400 Domain not properly configured for sending emails"
DomainNotActive     == "400 Domain is not active for sending emails"
SendFailed          == "500 Failed to send email"
SentOK              == "200 Email sent successfully"
Rejections          == {SenderNotFound, DomainNotConfigured, DomainNotActive}

NoDkim == [domainName |-> "", keySelector |-> 0 - 1, privateKey |-> 0]

\* the precondition checks of the send handlers, in the order of the code:
\* "ok" or the rejection
CheckSender(from) ==
  IF ~getEmailByAddress(from) THEN SenderNotFound ELSE "ok"

\* the two checks on the configuration in the other order: the active flag is
\* read before the configuration is known to exist
CheckDomainConfig_ActiveFirst(from) ==
  IF ~getDomainConfigByName(DomainOf(from)).active THEN DomainNotActive
  ELSE IF getDomainConfigByName(DomainOf(from)) = NoConfig THEN DomainNotConfigured
  ELSE "ok"

CheckDomainConfig(from) ==
  IF getDomainConfigByName(DomainOf(from)) = NoConfig THEN DomainNotConfigured
  ELSE IF ~getDomainConfigByName(DomainOf(from)).active THEN DomainNotActive
  ELSE "ok"

\* setupTransporter(fromDomain): the DKIM options of the transport
setupTransporter(fromDomain) ==
  LET domainCfg == getDomainConfigByName(fromDomain) IN
  IF domainCfg # NoConfig /\ domainCfg.active
    THEN [domainName |-> domainCfg.domainName,
          keySelector |-> domainCfg.dkimSelector,
          privateKey |-> domainCfg.dkimKey]
    ELSE NoDkim

\* the JSON file that the file-backed send writes to the sent folder
sentFile(id, origin, from, to) ==
  [id |-> id, origin |-> origin, fromEmail |-> from, toEmail |-> to,
   sent |-> "true", read |-> Absent, status |-> Absent, folder |-> "sent"]

\* sendEmailHandler up to emailModel.getEmailByAddress(from)
sendEmailHandler(p, from, to) ==
  /\ variant = "mysql"
  /\ Free(p)
  /\ nextReq <= MaxSends
  /\ nextReq' = nextReq + 1
  /\ proc' = [proc EXCEPT ![p] =
       IF CheckSender(from) # "ok"
         THEN [IdleProc EXCEPT !.op = "send", !.from = from, !.to = to,
                 !.rid = nextReq, !.pc = "done", !.resp = CheckSender(from)]
         ELSE [IdleProc EXCEPT !.op = "send", !.from = from, !.to = to,
                 !.rid = nextReq, !.pc = "s_config"]]
  /\ UNCHANGED <<variant, hostVars, storeVars, messages, nextId, smtpVars,
                 transporter, transportLog, accepted>>

\* sendEmailHandler: domainConfigModel.getDomainConfigByName(fromDomain) and
\* the two checks on it
sendCheckDomain(p) ==
  /\ proc[p].pc = "s_config"
  /\ proc' = [proc EXCEPT ![p] =
       IF CheckDomainConfig(proc[p].from) # "ok"
         THEN Done(p, CheckDomainConfig(proc[p].from))
         ELSE [proc[p] EXCEPT !.pc = "s_setup"]]
  /\ UNCHANGED <<variant, hostVars, storeVars, messages, nextId, smtpVars,
                 transporter, transportLog, accepted, nextReq>>

\* sendEmail: getTransporter(fromDomain) builds the transport from the
\* configuration read now, and emailTransporter.sendMail is called
sendEmail(p) ==
  /\ proc[p].pc = "s_setup"
  /\ transporter' = setupTransporter(DomainOf(proc[p].from))
  /\ transportLog' = transportLog \cup
       {[rid |-> proc[p].rid, from |-> proc[p].from, to |-> proc[p].to,
         dkim |-> setupTransporter(DomainOf(proc[p].from))]}
  /\ proc' = [proc EXCEPT ![p].pc = "s_transport"]
  /\ UNCHANGED <<variant, hostVars, storeVars, messages, nextId, smtpVars,
                 accepted, nextReq>>

\* sendMail settles, with the message stored before the outcome is looked at:
\* a failed transport call leaves a message with sent = true
sendMailSettled_StoreFirst(p, ok) ==
  /\ proc[p].pc = "s_transport"
  /\ messages' = messages \cup
       {createMessage(nextId, <<"send", proc[p].rid>>, proc[p].from,
                      proc[p].to, "true")}
  /\ nextId' = nextId + 1
  /\ IF ok
       THEN /\ accepted' = accepted \cup {proc[p].rid}
            /\ proc' = [proc EXCEPT ![p] = Done(p, SentOK)]
       ELSE /\ proc' = [proc EXCEPT ![p] = Done(p, SendFailed)]
            /\ UNCHANGED accepted
  /\ UNCHANGED <<variant, hostVars, storeVars, smtpVars, transporter, transportLog,
                 nextReq>>

\* sendMail settles: rejected, the catch answers 500; accepted, the handler
\* goes on to store the message
sendMailSettled(p, ok) ==
  /\ proc[p].pc = "s_transport"
  /\ IF ok
       THEN /\ accepted' = accepted \cup {proc[p].rid}
            /\ proc' = [proc EXCEPT ![p].pc = "s_store"]
       ELSE /\ proc' = [proc EXCEPT ![p] = Done(p, SendFailed)]
            /\ UNCHANGED accepted
  /\ UNCHANGED <<variant, hostVars, storeVars, messages, nextId, smtpVars,
                 transporter, transportLog, nextReq>>

\* messageModel.createMessage(messageData) with sent: true, then the answer
sendStore(p, dbOk) ==
  /\ proc[p].pc = "s_store"
  /\ IF dbOk
       THEN /\ messages' = messages \cup
                 {createMessage(nextId, <<"send", proc[p].rid>>, proc[p].from,
                                proc[p].to, "true")}
            /\ nextId' = nextId + 1
            /\ proc' = [proc EXCEPT ![p] = Done(p, SentOK)]
       ELSE /\ proc' = [proc EXCEPT ![p] = Done(p, SendFailed)]
            /\ UNCHANGED <<messages, nextId>>
  /\ UNCHANGED <<variant, hostVars, storeVars, smtpVars, transporter, transportLog,
                 accepted, nextReq>>

\* POST /api/send of the file-backed server up to await transporter.sendMail:
\* the checks, setupTransporter(fromDomain) and the call are synchronous
PostSend(p, from, to) ==
  /\ variant = "file"
  /\ Free(p)
  /\ nextReq <= MaxSends
  /\ nextReq' = nextReq + 1
  /\ IF CheckSender(from) # "ok"
       THEN /\ proc' = [proc EXCEPT ![p] =
                 [IdleProc EXCEPT !.op = "send", !.from = from, !.to = to,
                    !.rid = nextReq, !.pc = "done", !.resp = CheckSender(from)]]
            /\ UNCHANGED <<transporter, transportLog>>
       ELSE IF CheckDomainConfig(from) # "ok"
         THEN /\ proc' = [proc EXCEPT ![p] =
                   [IdleProc EXCEPT !.op = "send", !.from = from, !.to = to,
                      !.rid = nextReq, !.pc = "done",
                      !.resp = CheckDomainConfig(from)]]
              /\ UNCHANGED <<transporter, transportLog>>
         ELSE /\ transporter' = setupTransporter(DomainOf(from))
              /\ transportLog' = transportLog \cup
                   {[rid |-> nextReq, from |-> from, to |-> to,
                     dkim |-> setupTransporter(DomainOf(from))]}
              /\ proc' = [proc EXCEPT ![p] =
                   [IdleProc EXCEPT !.op = "send", !.from = from, !.to = to,
                      !.rid = nextReq, !.pc = "fs_transport"]]
  /\ UNCHANGED <<variant, hostVars, storeVars, messages, nextId, smtpVars, accepted>>

\* POST /api/send after sendMail settled: the sent item is written, or the
\* catch answers 500
PostSendSettled(p, ok, t, r) ==
  /\ proc[p].pc = "fs_transport"
  /\ IF ok
       THEN /\ accepted' = accepted \cup {proc[p].rid}
            /\ messages' = writeFileSync(
                 sentFile(FileId(t, r), <<"send", proc[p].rid>>,
                          proc[p].from, proc[p].to))
            /\ UNCHANGED nextId
            /\ proc' = [proc EXCEPT ![p] = Done(p, SentOK)]
       ELSE /\ proc' = [proc EXCEPT ![p] = Done(p, SendFailed)]
            /\ UNCHANGED <<messages, nextId, accepted>>
  /\ UNCHANGED <<variant, hostVars, storeVars, smtpVars, transporter, transportLog,
                 nextReq>>

(***************************************************************************)
(* applyPostfixConfig, applyVirtualDomainsConfig                           *)
(***************************************************************************)
MaxApplies == 2       \* apply calls

ApplyPcs == {"ap_backup", "ap_temp", "ap_copy", "ap_reload",
             "av_backup", "av_copy", "av_reload"}

\* the apply functions hold no await: execSync and the fs.*Sync calls block
\* the event loop, no other handler runs between two steps of a call
EventLoopFree_Async(p) == TRUE
EventLoopFree(p) == \A q \in Procs \ {p} : proc[q].pc \notin ApplyPcs

\* the ways an execSync call ends: exit status 0, a non-zero exit status,
\* the shell could not be started
Outcomes == {"ok", "exit", "spawn"}

backupCommand == <<"sudo cp /etc/postfix/main.cf /etc/postfix/main.cf.backup.">>
copyCommand(tempFile) == <<"sudo cp", tempFile, "/etc/postfix/main.cf">>
reloadCommand(forceRestart) ==
  IF forceRestart THEN <<"sudo systemctl restart postfix">>
                  ELSE <<"sudo postfix reload">>

\* err.message of the error execSync throws: 'Command failed: ' and the
\* command for a non-zero exit status, the message of the spawn error else
errMessage(outcome, command) ==
  IF outcome = "exit" THEN <<"Command failed: ">> \o command
                      ELSE <<"spawnSync /bin/sh EAGAIN">>

\* the object the inner catch of the apply functions returns
applyFailed(error, outcome, command) ==
  [success |-> FALSE, error |-> error,
   command_error |-> errMessage(outcome, command)]

ApplyDone(p, stage, result) ==
  [proc[p] EXCEPT !.pc = "done", !.resp = "returned",
     !.apply = [@ EXCEPT !.stage = stage, !.result = result]]

\* applyPostfixConfig up to the backup: configurePostfix(domain) writes the
\* rendered text to temp_postfix_config (unless checkPostfixConfig finds
\* no Postfix), readFileSync reads it back
applyPostfixConfig(p, domain, forceRestart, installed) ==
  /\ Free(p)
  /\ EventLoopFree(p)
  /\ IF installed
       THEN /\ postfix' = [postfix EXCEPT !.tempConfigFile = postfixConfig(domain)]
            /\ proc' = [proc EXCEPT ![p] =
                 [IdleProc EXCEPT !.op = "applyPostfixConfig", !.name = domain,
                    !.pc = "ap_backup",
                    !.apply = [NoApply EXCEPT !.content = postfixConfig(domain),
                                              !.restart = forceRestart]]]
       ELSE /\ proc' = [proc EXCEPT ![p] =
                 [IdleProc EXCEPT !.op = "applyPostfixConfig", !.name = domain,
                    !.pc = "done", !.resp = "returned",
                    !.apply = [NoApply EXCEPT !.restart = forceRestart,
                       !.stage = "configure",
                       !.result = [NoResult EXCEPT
                                     !.error = "Khong the tao cau hinh"]]]]
            /\ UNCHANGED postfix
  /\ UNCHANGED <<variant, envVars, virtualDomains, storeVars, messages, nextId,
                 smtpVars, transporter, transportLog, accepted, nextReq>>

\* execSync(backupCommand) whose failure is not thrown
ApplyBackup_Continue(p, outcome) ==
  /\ proc[p].pc = "ap_backup"
  /\ EventLoopFree(p)
  /\ IF outcome = "ok"
       THEN /\ postfix' = [postfix EXCEPT !.backup = postfix.mainCf,
                                          !.backups = @ + 1]
            /\ proc' = [proc EXCEPT ![p].pc = "ap_temp",
                                    ![p].apply.backedUp = TRUE]
       ELSE /\ proc' = [proc EXCEPT ![p].pc = "ap_temp"]
            /\ UNCHANGED postfix
  /\ UNCHANGED <<variant, envVars, virtualDomains, storeVars, messages, nextId,
                 smtpVars, transporter, transportLog, accepted, nextReq>>

\* execSync(backupCommand): a failure goes to the inner catch
ApplyBackup(p, outcome) ==
  /\ proc[p].pc = "ap_backup"
  /\ EventLoopFree(p)
  /\ IF outcome = "ok"
       THEN /\ postfix' = [postfix EXCEPT !.backup = postfix.mainCf,
                                          !.backups = @ + 1]
            /\ proc' = [proc EXCEPT ![p].pc = "ap_temp",
                                    ![p].apply.backedUp = TRUE]
       ELSE /\ proc' = [proc EXCEPT ![p] =
                 ApplyDone(p, "backup",
                   applyFailed("Khong the ap dung cau hinh", outcome,
                               backupCommand))]
            /\ UNCHANGED postfix
  /\ UNCHANGED <<variant, envVars, virtualDomains, storeVars, messages, nextId,
                 smtpVars, transporter, transportLog, accepted, nextReq>>

\* fs.writeFileSync('/tmp/postfix_config_' + Date.now(), configContent)
ApplyWriteTemp(p, t) ==
  /\ proc[p].pc = "ap_temp"
  /\ EventLoopFree(p)
  /\ postfix' = [postfix EXCEPT !.tmp =
       {f \in @ : f.name # t} \cup
         {[name |-> t, content |-> proc[p].apply.content]}]
  /\ proc' = [proc EXCEPT ![p].pc = "ap_copy", ![p].apply.tempFile = t]
  /\ UNCHANGED <<variant, envVars, virtualDomains, storeVars, messages, nextId,
                 smtpVars, transporter, transportLog, accepted, nextReq>>

\* execSync(`sudo cp ${tempFile} /etc/postfix/main.cf`), then
\* fs.unlinkSync(tempFile); a failed copy leaves the temp file behind
ApplyCopy(p, outcome) ==
  /\ proc[p].pc = "ap_copy"
  /\ EventLoopFree(p)
  /\ IF outcome = "ok"
       THEN /\ \E f \in postfix.tmp :
                 /\ f.name = proc[p].apply.tempFile
                 /\ postfix' = [postfix EXCEPT !.mainCf = f.content,
                                               !.tmp = @ \ {f}]
            /\ proc' = [proc EXCEPT ![p].pc = "ap_reload"]
       ELSE /\ proc' = [proc EXCEPT ![p] =
                 ApplyDone(p, "copy",
                   applyFailed("Khong the ap dung cau hinh", outcome,
                               copyCommand(proc[p].apply.tempFile)))]
            /\ UNCHANGED postfix
  /\ UNCHANGED <<variant, envVars, virtualDomains, storeVars, messages, nextId,
                 smtpVars, transporter, transportLog, accepted, nextReq>>

\* execSync('sudo systemctl restart postfix') or execSync('sudo postfix
\* reload'), then the result
ApplyReload(p, outcome) ==
  /\ proc[p].pc = "ap_reload"
  /\ EventLoopFree(p)
  /\ IF outcome = "ok"
       THEN /\ postfix' = [postfix EXCEPT !.reloads = @ + 1]
            /\ proc' = [proc EXCEPT ![p] =
                 ApplyDone(p, "applied",
                   [NoResult EXCEPT !.success = TRUE])]
       ELSE /\ proc' = [proc EXCEPT ![p] =
                 ApplyDone(p, "reload",
                   applyFailed("Khong the ap dung cau hinh", outcome,
                               reloadCommand(proc[p].apply.restart)))]
            /\ UNCHANGED postfix
  /\ UNCHANGED <<variant, envVars, virtualDomains, storeVars, messages, nextId,
                 smtpVars, transporter, transportLog, accepted, nextReq>>

\* applyVirtualDomainsConfig up to the backup:
\* configurePostfixWithVirtualDomains() writes temp_postfix_config and the
\* temp map files, unless it finds no primary domain or no Postfix
applyVirtualDomainsConfig(p, forceRestart, configured) ==
  /\ Free(p)
  /\ EventLoopFree(p)
  /\ IF configured
       THEN /\ postfix' = [postfix EXCEPT !.tempConfigFile = VirtualMainCf]
            /\ proc' = [proc EXCEPT ![p] =
                 [IdleProc EXCEPT !.op = "applyVirtualDomainsConfig",
                    !.pc = "av_backup",
                    !.apply = [NoApply EXCEPT !.restart = forceRestart]]]
       ELSE /\ proc' = [proc EXCEPT ![p] =
                 [IdleProc EXCEPT !.op = "applyVirtualDomainsConfig",
                    !.pc = "done", !.resp = "returned",
                    !.apply = [NoApply EXCEPT !.restart = forceRestart,
                       !.stage = "configure",
                       !.result = [NoResult EXCEPT !.error =
                          "Khong the tao cau hinh virtual domains"]]]]
            /\ UNCHANGED postfix
  /\ UNCHANGED <<variant, envVars, virtualDomains, storeVars, messages, nextId,
                 smtpVars, transporter, transportLog, accepted, nextReq>>

\* execSync(backupCommand) of applyVirtualDomainsConfig
ApplyVirtualBackup(p, outcome) ==
  /\ proc[p].pc = "av_backup"
  /\ EventLoopFree(p)
  /\ IF outcome = "ok"
       THEN /\ postfix' = [postfix EXCEPT !.backup = postfix.mainCf,
                                          !.backups = @ + 1]
            /\ proc' = [proc EXCEPT ![p].pc = "av_copy",
                                    ![p].apply.backedUp = TRUE]
       ELSE /\ proc' = [proc EXCEPT ![p] =
                 ApplyDone(p, "backup",
                   applyFailed("Khong the ap dung cau hinh virtual domains",
                               outcome, backupCommand))]
            /\ UNCHANGED postfix
  /\ UNCHANGED <<variant, envVars, virtualDomains, storeVars, messages, nextId,
                 smtpVars, transporter, transportLog, accepted, nextReq>>

\* the vmail directory, then the copies of main.cf and of the two maps and
\* the postmap calls: copied counts the copies done before a command fails
ApplyVirtualCopy(p, outcome, copied) ==
  /\ proc[p].pc = "av_copy"
  /\ EventLoopFree(p)
  /\ outcome = "ok" => copied = 2
  /\ postfix' = [postfix EXCEPT
       !.mainCf = IF copied >= 1 THEN postfix.tempConfigFile ELSE @,
       !.maps   = IF copied >= 2 THEN "virtual" ELSE @]
  /\ proc' = [proc EXCEPT ![p] =
       IF outcome = "ok"
         THEN [proc[p] EXCEPT !.pc = "av_reload"]
         ELSE ApplyDone(p, "copy",
                applyFailed("Khong the ap dung cau hinh virtual domains",
                            outcome, <<"sudo cp", copied>>))]
  /\ UNCHANGED <<variant, envVars, virtualDomains, storeVars, messages, nextId,
                 smtpVars, transporter, transportLog, accepted, nextReq>>

\* the reload or restart of applyVirtualDomainsConfig, then the result
ApplyVirtualReload(p, outcome) ==
  /\ proc[p].pc = "av_reload"
  /\ EventLoopFree(p)
  /\ IF outcome = "ok"
       THEN /\ postfix' = [postfix EXCEPT !.reloads = @ + 1]
            /\ proc' = [proc EXCEPT ![p] =
                 ApplyDone(p, "applied",
                   [NoResult EXCEPT !.success = TRUE])]
       ELSE /\ proc' = [proc EXCEPT ![p] =
                 ApplyDone(p, "reload",
                   applyFailed("Khong the ap dung cau hinh virtual domains",
                               outcome, reloadCommand(proc[p].apply.restart)))]
            /\ UNCHANGED postfix
  /\ UNCHANGED <<variant, envVars, virtualDomains, storeVars, messages, nextId,
                 smtpVars, transporter, transportLog, accepted, nextReq>>

\* the apply calls: requests 1..MaxApplies
Appliers == {p \in Procs : p <= MaxApplies}

NextApply ==
  \/ \E p \in Appliers, domain \in DomainNames, forceRestart \in BOOLEAN,
        installed \in BOOLEAN :
       applyPostfixConfig(p, domain, forceRestart, installed)
  \/ \E p \in Appliers, outcome \in Outcomes : ApplyBackup(p, outcome)
  \/ \E p \in Appliers, t \in Clock : ApplyWriteTemp(p, t)
  \/ \E p \in Appliers, outcome \in Outcomes : ApplyCopy(p, outcome)
  \/ \E p \in Appliers, outcome \in Outcomes : ApplyReload(p, outcome)
  \/ \E p \in Appliers, forceRestart \in BOOLEAN, configured \in BOOLEAN :
       applyVirtualDomainsConfig(p, forceRestart, configured)
  \/ \E p \in Appliers, outcome \in Outcomes : ApplyVirtualBackup(p, outcome)
  \/ \E p \in Appliers, outcome \in Outcomes, copied \in 0..2 :
       ApplyVirtualCopy(p, outcome, copied)
  \/ \E p \in Appliers, outcome \in Outcomes : ApplyVirtualReload(p, outcome)

(***************************************************************************)
(* Virtual domains and their mailboxes (data/virtual_domains.json)         *)
(***************************************************************************)
\* strings are sequences of pieces; "@" is a piece of its own
At == <<"@">>
VirtualDomainNames == {<<"example.com">>, <<"mathsnap.org">>}
Usernames == {<<"user">>, <<"user", "@", "example.com">>}

\* `${username}@${domainName}`
emailOf(username, domainName) == username \o At \o domainName

\* email.split('@'): the pieces before the first "@", and those between the
\* first and the second "@" (or the end); <<>> stands for undefined
AtPositions(email) == {i \in DOMAIN email : email[i] = "@"}
FirstAt(email) ==
  CHOOSE i \in AtPositions(email) : \A j \in AtPositions(email) : i <= j
SecondPart(email) ==
  IF AtPositions(email) = {} THEN <<>>
  ELSE LET rest == SubSeq(email, FirstAt(email) + 1, Len(email))
       IN IF AtPositions(rest) = {} THEN rest
          ELSE SubSeq(rest, 1, FirstAt(rest) - 1)

\* domains.findIndex(d => d.domainName === domainName), 0 for -1
findIndex(domainName) ==
  IF \E i \in DOMAIN virtualDomains : virtualDomains[i].domainName = domainName
    THEN CHOOSE i \in DOMAIN virtualDomains :
           /\ virtualDomains[i].domainName = domainName
           /\ \A j \in 1..(i - 1) : virtualDomains[j].domainName # domainName
    ELSE 0

\* domainInfo carries domainName and, possibly, enabled
DomainInfos == [domainName : VirtualDomainNames, enabled : Supplied]

\* addVirtualDomain without the findIndex check
addVirtualDomain_AlwaysPush(domainInfo) ==
  Append(virtualDomains,
         [domainName |-> domainInfo.domainName,
          enabled |-> domainInfo.enabled # "false",
          hasMailboxes |-> FALSE, mailboxes |-> <<>>,
          hasAliases |-> FALSE, aliases |-> <<>>])

\* addVirtualDomain: an entry of that name is merged with domainInfo, else a
\* new entry is pushed, enabled unless domainInfo says otherwise
addVirtualDomain(domainInfo) ==
  IF findIndex(domainInfo.domainName) > 0
    THEN [virtualDomains EXCEPT ![findIndex(domainInfo.domainName)].enabled =
            IF domainInfo.enabled = Absent THEN @
                                           ELSE domainInfo.enabled = "true"]
    ELSE Append(virtualDomains,
                [domainName |-> domainInfo.domainName,
                 enabled |-> domainInfo.enabled # "false",
                 hasMailboxes |-> FALSE, mailboxes |-> <<>>,
          hasAliases |-> FALSE, aliases |-> <<>>])

\* removeVirtualDomain: domains.filter(d => d.domainName !== domainName)
removeVirtualDomain(domainName) ==
  SelectSeq(virtualDomains, LAMBDA d : d.domainName # domainName)

\* updateVirtualDomainStatus
updateVirtualDomainStatus(domainName, enabled) ==
  IF findIndex(domainName) = 0 THEN virtualDomains
  ELSE [virtualDomains EXCEPT ![findIndex(domainName)].enabled = enabled]

\* createMailbox: the mailbox of that email is replaced, else one is pushed
createMailbox(domainName, username) ==
  LET i == findIndex(domainName)
      email == emailOf(username, domainName)
      box == [user |-> username, email |-> email]
  IN IF i = 0 THEN virtualDomains
     ELSE LET boxes == virtualDomains[i].mailboxes
          IN [virtualDomains EXCEPT
                ![i].hasMailboxes = TRUE,
                ![i].mailboxes =
                   IF \E k \in DOMAIN boxes : boxes[k].email = email
                     THEN [k \in DOMAIN boxes |->
                             IF k = (CHOOSE m \in DOMAIN boxes :
                                       /\ boxes[m].email = email
                                       /\ \A n \in 1..(m - 1) :
                                            boxes[n].email # email)
                               THEN box ELSE boxes[k]]
                     ELSE Append(boxes, box)]

\* removeMailbox: the domain is the second part of email.split('@')
removeMailbox(email) ==
  LET i == findIndex(SecondPart(email))
  IN IF SecondPart(email) = <<>> \/ i = 0 THEN virtualDomains
     ELSE IF ~virtualDomains[i].hasMailboxes THEN virtualDomains
     ELSE [virtualDomains EXCEPT ![i].mailboxes =
             SelectSeq(@, LAMBDA m : m.email # email)]

\* a call of one of the functions: all of them are synchronous
CallVirtual(result) ==
  /\ virtualDomains' = result
  /\ UNCHANGED <<variant, envVars, postfix, storeVars, messages, nextId, smtpVars,
                 apiVars>>

Emails == {emailOf(u, d) : u \in Usernames, d \in VirtualDomainNames}
             \cup Usernames

NextVirtual ==
  \/ \E domainInfo \in DomainInfos : CallVirtual(addVirtualDomain(domainInfo))
  \/ \E d \in VirtualDomainNames : CallVirtual(removeVirtualDomain(d))
  \/ \E d \in VirtualDomainNames, enabled \in BOOLEAN :
       CallVirtual(updateVirtualDomainStatus(d, enabled))
  \/ \E d \in VirtualDomainNames, u \in Usernames :
       CallVirtual(createMailbox(d, u))
  \/ \E email \in Emails : CallVirtual(removeMailbox(email))

\* the alias addresses and the destinations of the calls
AliasEmails == {<<"info", "@", "example.com">>, <<"info", "@", "mathsnap.org">>,
                <<"info">>}
Destinations == {<<"user", "@", "example.com">>, <<"ops", "@", "example.net">>}

\* createAlias: the alias of that address is replaced, else one is pushed, in
\* the entry of domainName
createAlias(domainName, aliasEmail, destinationEmail) ==
  LET i == findIndex(domainName)
      entry == [alias |-> aliasEmail, destination |-> destinationEmail]
  IN IF i = 0 THEN virtualDomains
     ELSE LET aliases == virtualDomains[i].aliases
          IN [virtualDomains EXCEPT
                ![i].hasAliases = TRUE,
                ![i].aliases =
                   IF \E k \in DOMAIN aliases : aliases[k].alias = aliasEmail
                     THEN [k \in DOMAIN aliases |->
                             IF k = (CHOOSE m \in DOMAIN aliases :
                                       /\ aliases[m].alias = aliasEmail
                                       /\ \A n \in 1..(m - 1) :
                                            aliases[n].alias # aliasEmail)
                               THEN entry ELSE aliases[k]]
                     ELSE Append(aliases, entry)]

\* removeAlias: the domain is the second part of aliasEmail.split('@')
removeAlias(aliasEmail) ==
  LET i == findIndex(SecondPart(aliasEmail))
  IN IF SecondPart(aliasEmail) = <<>> \/ i = 0 THEN virtualDomains
     ELSE IF ~virtualDomains[i].hasAliases THEN virtualDomains
     ELSE [virtualDomains EXCEPT ![i].aliases =
             SelectSeq(@, LAMBDA a : a.alias # aliasEmail)]

\* the error of the object removeAlias returns, "" when success is true
removeAliasError(aliasEmail) ==
  LET i == findIndex(SecondPart(aliasEmail))
  IN IF SecondPart(aliasEmail) = <<>> THEN "Invalid email format"
     ELSE IF i = 0 THEN "Domain not found"
     ELSE IF ~virtualDomains[i].hasAliases
       THEN "No aliases found for this domain"
     ELSE IF removeAlias(aliasEmail) = virtualDomains THEN "Alias not found"
     ELSE ""

\* a call of createAlias
CallCreateAlias(p, domainName, aliasEmail, destinationEmail) ==
  /\ Free(p)
  /\ virtualDomains' = createAlias(domainName, aliasEmail, destinationEmail)
  /\ proc' = [proc EXCEPT ![p] =
       [IdleProc EXCEPT !.op = "createAlias", !.aliasEmail = aliasEmail,
          !.pc = "done",
          !.resp = IF findIndex(domainName) = 0 THEN "Domain not found"
                   ELSE "success"]]
  /\ UNCHANGED <<variant, envVars, postfix, storeVars, messages, nextId,
                 smtpVars, transporter, transportLog, accepted, nextReq>>

\* a call of removeAlias
CallRemoveAlias(p, aliasEmail) ==
  /\ Free(p)
  /\ virtualDomains' = removeAlias(aliasEmail)
  /\ proc' = [proc EXCEPT ![p] =
       [IdleProc EXCEPT !.op = "removeAlias", !.aliasEmail = aliasEmail,
          !.pc = "done",
          !.resp = IF removeAliasError(aliasEmail) = "" THEN "success"
                   ELSE removeAliasError(aliasEmail)]]
  /\ UNCHANGED <<variant, envVars, postfix, storeVars, messages, nextId,
                 smtpVars, transporter, transportLog, accepted, nextReq>>

NextAlias ==
  \/ \E domainInfo \in DomainInfos : CallVirtual(addVirtualDomain(domainInfo))
  \/ \E d \in VirtualDomainNames : CallVirtual(removeVirtualDomain(d))
  \/ \E p \in Procs, d \in VirtualDomainNames, a \in AliasEmails,
        dest \in Destinations : CallCreateAlias(p, d, a, dest)
  \/ \E p \in Procs, a \in AliasEmails : CallRemoveAlias(p, a)

(***************************************************************************)
(* configurePostfix: the text of the single-domain main.cf                 *)
(***************************************************************************)
\* a text is a sequence of lines `key = value`; a value is a sequence of
\* pieces; the key "#" marks a comment line
Line(key, value) == [key |-> key, value |-> value]

\* config.inbound.hostname || os.hostname()
Hostnames == {<<"mail">>, <<"mx1", ".", "dc">>}
\* the domain names the text is rendered for
RenderDomains == {<<"example.com">>, <<"mathsnap.org">>,
                  <<"mail", ".", "example.com">>}

\* the template with `mydomain = ${hostname}`
mainCfText_HostAsDomain(hostname, domain, limit) ==
  <<Line("#", <<"Postfix">> \o domain),
    Line("myhostname", hostname \o <<".">> \o domain),
    Line("mydomain", hostname),
    Line("myorigin", <<"$mydomain">>),
    Line("mydestination", <<"$myhostname", "localhost.$mydomain",
                            "localhost", "$mydomain">>),
    Line("smtpd_sasl_local_domain", <<"$myhostname">>),
    Line("message_size_limit", <<limit>>)>>

\* the template of configurePostfix, the lines that name the host, the
\* domain or the size limit
mainCfText(hostname, domain, limit) ==
  <<Line("#", <<"Postfix">> \o domain),
    Line("myhostname", hostname \o <<".">> \o domain),
    Line("mydomain", domain),
    Line("myorigin", <<"$mydomain">>),
    Line("mydestination", <<"$myhostname", "localhost.$mydomain",
                            "localhost", "$mydomain">>),
    Line("smtpd_sasl_local_domain", <<"$myhostname">>),
    Line("message_size_limit", <<limit>>)>>

\* the 'main.cf' text of the configurePostfix of the MySQL model
mockMainCfText(domain) ==
  <<Line("#", <<"Postfix configuration for">> \o domain),
    Line("myhostname", <<"mail">> \o <<".">> \o domain),
    Line("mydomain", domain)>>

\* configurePostfix(domain): the text is written to temp_postfix_config,
\* unless checkPostfixConfig finds no Postfix
ConfigurePostfix(p, domain, hostname, installed) ==
  /\ Free(p)
  /\ EventLoopFree(p)
  /\ IF installed
       THEN /\ postfix' = [postfix EXCEPT !.tempConfigFile =
                 mainCfText(hostname, domain, ConfiguredMaxMessageSize)]
            /\ proc' = [proc EXCEPT ![p] =
                 [IdleProc EXCEPT !.op = "configurePostfix", !.domain = domain,
                    !.pc = "done", !.resp = "success",
                    !.apply = [NoApply EXCEPT !.content =
                       mainCfText(hostname, domain, ConfiguredMaxMessageSize)]]]
       ELSE /\ proc' = [proc EXCEPT ![p] =
                 [IdleProc EXCEPT !.op = "configurePostfix", !.domain = domain,
                    !.pc = "done", !.resp = "Postfix is not installed"]]
            /\ UNCHANGED postfix
  /\ UNCHANGED <<variant, envVars, virtualDomains, storeVars, messages, nextId,
                 smtpVars, transporter, transportLog, accepted, nextReq>>

\* configurePostfix(domain) of the MySQL model: the texts are returned
ConfigurePostfixMock(p, domain) ==
  /\ Free(p)
  /\ proc' = [proc EXCEPT ![p] =
       [IdleProc EXCEPT !.op = "configurePostfix", !.domain = domain,
          !.pc = "done", !.resp = "success",
          !.apply = [NoApply EXCEPT !.content = mockMainCfText(domain)]]]
  /\ UNCHANGED <<variant, hostVars, storeVars, messages, nextId,
                 smtpVars, transporter, transportLog, accepted, nextReq>>

NextRender ==
  \/ \E p \in Procs, domain \in RenderDomains, hostname \in Hostnames,
        installed \in BOOLEAN :
       ConfigurePostfix(p, domain, hostname, installed)
  \/ \E p \in Procs, domain \in RenderDomains : ConfigurePostfixMock(p, domain)

(***************************************************************************)
(* checkDNSConfiguration                                                   *)
(***************************************************************************)
\* the domain the zone of the model belongs to, and the address of the host
ZoneDomain == <<"example.com">>
CheckedDomains == {ZoneDomain, <<"mathsnap.org">>}
serverIP == <<"203.0.113.7">>

\* the selector of a generated identity: 'mail' + Math.floor(Date.now() / 1000)
dkimSelector(t) == <<"mail", ToString(t \div 1000)>>
\* the selectors the dkim check tries
selectors == <<<<"mail">>, <<"default">>, <<"dkim">>, <<"selector1">>>>

\* the query names
dmarcName(domain) == <<"_dmarc", ".">> \o domain
dkimName(selector, domain) == selector \o <<".", "_domainkey", ".">> \o domain
Query(type, name) == <<type, name>>

\* TXT records, each the join of its chunks: the first piece is the tag
spfRecord   == <<"v=spf1", " ip4:203.0.113.7 -all">>
dmarcRecord == <<"v=DMARC1", "; p=none">>
dkimRecord  == <<"v=DKIM1", "; k=rsa; p=">>
otherRecord == <<"google-site-verification=">>
startsWith(record, tag) == Len(record) > 0 /\ record[1] = tag

ErrorCodes == {"ENOTFOUND", "ETIMEOUT"}
Failures == {Failure(code) : code \in ErrorCodes}

\* the selector names that have an answer in the zones of the model
ZoneSelectors == {<<"mail">>, <<"selector1">>} \cup {dkimSelector(t) : t \in Clock}

\* the zones of the model: an answer for each query about ZoneDomain
Zones ==
  {mx @@ txt @@ dmarc @@ ptr @@ dkim :
     mx \in {[q \in {Query("MX", ZoneDomain)} |-> a] :
               a \in {Answer(<<"mail.example.com">>), Answer(<<>>)} \cup Failures},
     txt \in {[q \in {Query("TXT", ZoneDomain)} |-> a] :
               a \in {Answer(<<spfRecord>>), Answer(<<otherRecord>>)} \cup Failures},
     dmarc \in {[q \in {Query("TXT", dmarcName(ZoneDomain))} |-> a] :
               a \in {Answer(<<dmarcRecord>>), Answer(<<otherRecord>>)} \cup Failures},
     ptr \in {[q \in {Query("PTR", serverIP)} |-> a] :
               a \in {Answer(<<"mail.example.com">>)} \cup Failures},
     dkim \in [{Query("TXT", dkimName(sel, ZoneDomain)) : sel \in ZoneSelectors} ->
                 {Answer(<<dkimRecord>>)} \cup Failures]}

\* dns.resolveMx / resolveTxt / reverse: the answer to a query
resolve(query) ==
  IF query \in DOMAIN dnsRecords THEN dnsRecords[query] ELSE NotFoundAnswer

filter(records, tag) == SelectSeq(records, LAMBDA r : startsWith(r, tag))

\* a check whose catch sets status 'error' whatever the code (mx, spf, ptr)
checkRecords(answer, records) ==
  IF answer.code # ""
    THEN [status |-> "error", records |-> <<>>, error |-> answer.code]
    ELSE [status |-> IF Len(records) > 0 THEN "ok" ELSE "missing",
          records |-> answer.records, error |-> ""]

checkMx(domain) ==
  LET answer == resolve(Query("MX", domain))
  IN checkRecords(answer, answer.records)

checkSpf(domain) ==
  LET answer == resolve(Query("TXT", domain))
  IN [checkRecords(answer, filter(answer.records, "v=spf1")) EXCEPT
        !.records = filter(answer.records, "v=spf1")]

\* the dmarc check: its catch tells ENOTFOUND from the other codes
checkDmarc(domain) ==
  LET answer == resolve(Query("TXT", dmarcName(domain)))
  IN IF answer.code = "ENOTFOUND"
       THEN [status |-> "missing", records |-> <<>>, error |-> ""]
       ELSE checkRecords(answer, filter(answer.records, "v=DMARC1"))

\* the dkim check: the records of every selector that resolves; a selector
\* whose lookup throws is skipped
RECURSIVE dkimRecords(_, _)
dkimRecords(domain, i) ==
  IF i > Len(selectors) THEN <<>>
  ELSE resolve(Query("TXT", dkimName(selectors[i], domain))).records
         \o dkimRecords(domain, i + 1)

checkDkim(domain) ==
  [status |-> IF Len(dkimRecords(domain, 1)) > 0 THEN "ok" ELSE "missing",
   records |-> dkimRecords(domain, 1), error |-> ""]

checkPtr == 
  LET answer == resolve(Query("PTR", serverIP))
  IN checkRecords(answer, answer.records)

CheckNames == {"mx", "spf", "dkim", "dmarc", "ptr"}

\* Math.round(x) for x = n / d
round(n, d) == (2 * n + d) \div (2 * d)

\* the score with the checks that ended in 'error' left out of totalChecks
healthScore_SkipErrors(checks) ==
  LET totalChecks == Cardinality({c \in CheckNames :
                        checks[c].status \notin {"unchecked", "error"}})
      passedChecks == Cardinality({c \in CheckNames : checks[c].status = "ok"})
  IN IF totalChecks > 0 THEN round(passedChecks * 100, totalChecks) ELSE 0

\* totalChecks, passedChecks and results.healthScore
healthScore(checks) ==
  LET totalChecks == Cardinality({c \in CheckNames :
                        checks[c].status # "unchecked"})
      passedChecks == Cardinality({c \in CheckNames : checks[c].status = "ok"})
  IN IF totalChecks > 0 THEN round(passedChecks * 100, totalChecks) ELSE 0

checkDNSConfiguration(domain) ==
  LET checks == [mx |-> checkMx(domain), spf |-> checkSpf(domain),
                 dkim |-> checkDkim(domain), dmarc |-> checkDmarc(domain),
                 ptr |-> checkPtr, healthScore |-> 0]
  IN [checks EXCEPT !.healthScore = healthScore(checks)]

\* GET /api/email-config/dns/:domain
GetDnsCheck(p, domain) ==
  /\ variant = "file"
  /\ Free(p)
  /\ proc' = [proc EXCEPT ![p] =
       [IdleProc EXCEPT !.op = "checkDNS", !.domain = domain, !.pc = "done",
          !.resp = "200", !.results = checkDNSConfiguration(domain)]]
  /\ UNCHANGED <<variant, hostVars, storeVars, messages, nextId,
                 smtpVars, transporter, transportLog, accepted, nextReq>>

NextDns == \E p \in Procs, domain \in CheckedDomains : GetDnsCheck(p, domain)

(***************************************************************************)
(* Mail-server configuration: updateEmailConfig                            *)
(***************************************************************************)
keys(item) == {item.fields[i].key : i \in DOMAIN item.fields}
valueOf(item, key) ==
  item.fields[CHOOSE i \in DOMAIN item.fields : item.fields[i].key = key].item

\* output[key] = item, Object.assign(output, { [key]: item })
assign(output, key, item) ==
  IF key \in keys(output)
    THEN [output EXCEPT !.fields =
            [i \in DOMAIN output.fields |->
               IF output.fields[i].key = key THEN Field(key, item)
               ELSE output.fields[i]]]
    ELSE [output EXCEPT !.fields = Append(output.fields, Field(key, item))]

\* deepMerge(target, source); forEachKey is the loop over Object.keys(source)
\* from its i-th key on.  Object.assign({}, target) of a target that is a
\* number or a boolean is {}
RECURSIVE deepMerge(_, _), forEachKey(_, _, _, _)
deepMerge(target, source) ==
  LET output == IF isObject(target) THEN target ELSE Object(<<>>)
  IN IF isObject(target) /\ isObject(source)
       THEN forEachKey(output, target, source, 1)
       ELSE output

forEachKey(output, target, source, i) ==
  IF i > Len(source.fields) THEN output
  ELSE LET key == source.fields[i].key
           item == source.fields[i].item
       IN forEachKey(
            IF isObject(item) /\ key \in keys(target)
              THEN assign(output, key, deepMerge(valueOf(target, key), item))
              ELSE assign(output, key, item),
            target, source, i + 1)

\* the request bodies of POST /api/email-config
NewConfigs ==
  {Object(<<Field("inbound", Object(<<Field("port", Scalar("2525"))>>))>>),
   Object(<<Field("inbound", Object(<<Field("hostname", Scalar("mx1"))>>))>>),
   Object(<<Field("limits", Object(<<Field("maxRecipients", Scalar("10"))>>))>>),
   Object(<<Field("outbound", Object(<<Field("enabled", Scalar("true"))>>))>>)}

\* POST / of the email-config routes, updateEmailConfig up to the UPDATE:
\* getEmailConfig reads the stored value and deepMerge builds mergedConfig
UpdateEmailConfig(p, body) ==
  /\ variant = "mysql"
  /\ Free(p)
  /\ proc' = [proc EXCEPT ![p] =
       [IdleProc EXCEPT !.op = "updateEmailConfig", !.pc = "uc_update",
          !.newConfig = body,
          !.mergedConfig = deepMerge(emailConfig, body)]]
  /\ UNCHANGED <<variant, hostVars, storeVars, messages, nextId,
                 smtpVars, transporter, transportLog, accepted, nextReq>>

\* the UPDATE of updateEmailConfig stores mergedConfig and the route answers
\* with it; when the query fails the route answers 500
UpdateEmailConfigUpdate(p, dbOk) ==
  /\ proc[p].pc = "uc_update"
  /\ IF dbOk
       THEN /\ emailConfig' = proc[p].mergedConfig
            /\ proc' = [proc EXCEPT ![p] = Done(p, "200")]
       ELSE /\ proc' = [proc EXCEPT ![p] =
                 Done(p, "500 Failed to update email configuration")]
            /\ UNCHANGED emailConfig
  /\ UNCHANGED <<variant, postfix, virtualDomains, dnsRecords, storeVars,
                 messages, nextId, smtpVars, transporter, transportLog,
                 accepted, nextReq>>

NextConfig ==
  \/ \E p \in Procs, body \in NewConfigs : UpdateEmailConfig(p, body)
  \/ \E p \in Procs, dbOk \in BOOLEAN : UpdateEmailConfigUpdate(p, dbOk)

(***************************************************************************)
(* PUT /:id of the Sequelize routes                                        *)
(***************************************************************************)
\* req.body.name: a domain name, or "" when the body has no name
PutNames == DomainNames \cup {""}

\* the rule of the foreign key domain_configs.domain_name -> domains.name for
\* an update of the referenced name: CASCADE in the table sequelize.sync
\* creates from the hasOne association, RESTRICT in a table created with
\* FOREIGN KEY (domain_name) REFERENCES domains(name) ON DELETE CASCADE
OnUpdateRules == {"CASCADE", "RESTRICT"}

\* a foreign key without a rule for updates: the rows keep their domain_name
onUpdateCascade_None(old, new) == configs

\* ON UPDATE CASCADE: the rows that reference the old name follow it
onUpdateCascade(old, new) ==
  [i \in DOMAIN configs |->
     IF configs[i].domainName = old
       THEN [configs[i] EXCEPT !.domainName = new]
       ELSE configs[i]]

\* PUT /:id up to Domain.findByPk
PutDomain(p, id, name) ==
  /\ variant = "sequelize"
  /\ Free(p)
  /\ proc' = [proc EXCEPT ![p] =
       IF \E d \in Range(domains) : d.id = id
         THEN [IdleProc EXCEPT !.op = "putDomain", !.id = id, !.name = name,
                 !.pc = "put_tx"]
         ELSE [IdleProc EXCEPT !.op = "putDomain", !.id = id, !.name = name,
                 !.pc = "done", !.resp = "404 Domain not found"]]
  /\ UNCHANGED <<variant, hostVars, storeVars, messages, nextId, smtpVars,
                 transporter, transportLog, accepted, nextReq>>

\* the transaction of PUT /:id.  domain.update sets the name on the instance
\* and saves it, so `name !== domain.name` is false afterwards and
\* DomainConfig.update is not reached: the rows of domain_configs change only
\* by the rule of the foreign key.  A taken name, a RESTRICT rule with a
\* referencing row, and a domain deleted in the meantime (updatedDomain is
\* null) make the transaction throw and roll back
PutDomainTransaction(p, onUpdate) ==
  /\ proc[p].pc = "put_tx"
  /\ LET id == proc[p].id
         name == proc[p].name
         found == \E d \in Range(domains) : d.id = id
         old == IF found THEN NameOfId(id) ELSE ""
         renames == found /\ name # "" /\ name # old
         throws == \/ ~found
                   \/ renames /\ getDomainByName(name)
                   \/ renames /\ onUpdate = "RESTRICT" /\ ConfigsFor(old) # <<>>
     IN IF throws
          THEN /\ proc' = [proc EXCEPT ![p] = Done(p, "500")]
               /\ UNCHANGED <<domains, configs>>
          ELSE /\ domains' = [i \in DOMAIN domains |->
                    IF domains[i].id = id /\ renames
                      THEN [domains[i] EXCEPT !.name = name]
                      ELSE domains[i]]
               /\ configs' = IF renames THEN onUpdateCascade(old, name)
                                        ELSE configs
               /\ proc' = [proc EXCEPT ![p] =
                    [Done(p, "200") EXCEPT
                       !.row = IF renames
                                 THEN [getDomainConfigByName(old) EXCEPT
                                         !.domainName =
                                            IF ConfigsFor(old) # <<>>
                                              THEN name ELSE @]
                                 ELSE getDomainConfigByName(old)]]
  /\ UNCHANGED <<variant, hostVars, emails, keyCount, messages, nextId,
                 smtpVars, transporter, transportLog, accepted, nextReq>>

NextRename ==
  \/ \E p \in Procs, name \in DomainNames : PostDomainSequelize(p, name)
  \/ \E p \in Procs : PostDomainTransaction(p)
  \/ \E p \in Procs, id \in DomainIds, name \in PutNames : PutDomain(p, id, name)
  \/ \E p \in Procs, onUpdate \in OnUpdateRules : PutDomainTransaction(p, onUpdate)

(***************************************************************************)
(* Message routes: mark as read, delete                                    *)
(***************************************************************************)
MessageNotFound == "404 Message not found"
NoId == 0 - 1

\* messageModel.getMessageForEmailById: (to_email = ? OR from_email = ?)
\* AND id = ?
getMessageForEmailById(email, messageId) ==
  \E m \in messages :
    m.id = messageId /\ (m.toEmail = email \/ m.fromEmail = email)

\* UPDATE messages SET read = TRUE WHERE id = ?
markMessageAsRead(id) ==
  {IF m.id = id THEN [m EXCEPT !.read = "true"] ELSE m : m \in messages}

\* DELETE FROM messages WHERE id = ?
deleteMessage(id) == {m \in messages : m.id # id}

\* fs.existsSync(path.join(MESSAGES_DIR, email, `${messageId}.json`))
existsSync(email, messageId) ==
  \E m \in messages : FilePath(m) = <<email, "inbox", messageId>>

\* PATCH /:email/:messageId/read up to getMessageForEmailById
PatchRead(p, email, messageId) ==
  /\ variant = "mysql"
  /\ Free(p)
  /\ proc' = [proc EXCEPT ![p] =
       [IdleProc EXCEPT !.op = "markRead", !.to = email, !.id = messageId,
          !.pc = IF getMessageForEmailById(email, messageId)
                   THEN "mr_update" ELSE "done",
          !.resp = IF getMessageForEmailById(email, messageId)
                     THEN "none" ELSE MessageNotFound]]
  /\ UNCHANGED <<variant, hostVars, storeVars, messages, nextId, smtpVars, transporter,
                 transportLog, accepted, nextReq>>

\* PATCH /:email/:messageId/read: markMessageAsRead(messageId), the answer
PatchReadUpdate(p) ==
  /\ proc[p].pc = "mr_update"
  /\ messages' = markMessageAsRead(proc[p].id)
  /\ proc' = [proc EXCEPT ![p] = Done(p, "200 Message marked as read")]
  /\ UNCHANGED <<variant, hostVars, storeVars, nextId, smtpVars, transporter,
                 transportLog, accepted, nextReq>>

\* DELETE /:email/:messageId up to getMessageForEmailById
DeleteMessage(p, email, messageId) ==
  /\ variant = "mysql"
  /\ Free(p)
  /\ proc' = [proc EXCEPT ![p] =
       [IdleProc EXCEPT !.op = "deleteMessage", !.to = email,
          !.id = messageId,
          !.pc = IF getMessageForEmailById(email, messageId)
                   THEN "dm_delete" ELSE "done",
          !.resp = IF getMessageForEmailById(email, messageId)
                     THEN "none" ELSE MessageNotFound]]
  /\ UNCHANGED <<variant, hostVars, storeVars, messages, nextId, smtpVars, transporter,
                 transportLog, accepted, nextReq>>

\* DELETE /:email/:messageId: deleteMessage(messageId), the answer
DeleteMessageDelete(p) ==
  /\ proc[p].pc = "dm_delete"
  /\ messages' = deleteMessage(proc[p].id)
  /\ proc' = [proc EXCEPT ![p] = Done(p, "200 Message deleted successfully")]
  /\ UNCHANGED <<variant, hostVars, storeVars, nextId, smtpVars, transporter,
                 transportLog, accepted, nextReq>>

\* PATCH /api/messages/:email/:messageId/read of the file-backed server: the
\* file is read, messageData.read = true, the file is written back
PatchReadFile(p, email, messageId) ==
  /\ variant = "file"
  /\ Free(p)
  /\ IF existsSync(email, messageId)
       THEN /\ messages' =
                 {IF FilePath(m) = <<email, "inbox", messageId>>
                    THEN [m EXCEPT !.read = "true"] ELSE m : m \in messages}
            /\ proc' = [proc EXCEPT ![p] =
                 [IdleProc EXCEPT !.op = "markRead", !.to = email,
                    !.id = messageId, !.pc = "done",
                    !.resp = "200 Message marked as read"]]
       ELSE /\ proc' = [proc EXCEPT ![p] =
                 [IdleProc EXCEPT !.op = "markRead", !.to = email,
                    !.id = messageId, !.pc = "done",
                    !.resp = MessageNotFound]]
            /\ UNCHANGED messages
  /\ UNCHANGED <<variant, hostVars, storeVars, nextId, smtpVars, transporter,
                 transportLog, accepted, nextReq>>

\* DELETE /api/messages/:email/:messageId of the file-backed server
DeleteMessageFile(p, email, messageId) ==
  /\ variant = "file"
  /\ Free(p)
  /\ IF existsSync(email, messageId)
       THEN /\ messages' =
                 {m \in messages : FilePath(m) # <<email, "inbox", messageId>>}
            /\ proc' = [proc EXCEPT ![p] =
                 [IdleProc EXCEPT !.op = "deleteMessage", !.to = email,
                    !.id = messageId, !.pc = "done",
                    !.resp = "200 Message deleted successfully"]]
       ELSE /\ proc' = [proc EXCEPT ![p] =
                 [IdleProc EXCEPT !.op = "deleteMessage", !.to = email,
                    !.id = messageId, !.pc = "done",
                    !.resp = MessageNotFound]]
            /\ UNCHANGED messages
  /\ UNCHANGED <<variant, hostVars, storeVars, nextId, smtpVars, transporter,
                 transportLog, accepted, nextReq>>

MailboxAddresses == {[user |-> "user", domain |-> d] : d \in DomainNames}
SendTo           == [user |-> "ghost", domain |-> "other.org"]

\* the domain routes and the direct calls of the identity store
NextDomain ==
  \/ \E p \in Procs, name \in DomainNames : PostDomain(p, name)
  \/ \E p \in Procs : createDomain(p)
  \/ \E p \in Procs, name \in DomainNames : CallCreateDomainConfig(p, name)
  \/ \E p \in Procs : createDomainConfigSelect(p)
  \/ \E p \in Procs : createDomainConfigInsert(p)
  \/ \E p \in Procs : createDomainConfigCommit(p)
  \/ \E p \in Procs, name \in DomainNames : PostDomainSequelize(p, name)
  \/ \E p \in Procs : PostDomainTransaction(p)
  \/ \E p \in Procs, name \in DomainNames : createForDomain(p, name)
  \/ \E p \in Procs : createForDomainCreate(p)
  \/ \E p \in Procs, name \in DomainNames : PostDomainFile(p, name)
  \/ \E p \in Procs : PostDomainFileAdd(p)
  \/ \E p \in Procs : GetDomainConfigs(p)
  \/ \E p \in Procs, name \in DomainNames : CallCreateDomainConfigFile(p, name)
  \/ \E p \in Procs, id \in DomainIds : DeleteDomain(p, id)
  \/ \E p \in Procs : deleteDomain(p)
  \/ \E p \in Procs, id \in DomainIds : DeleteDomainFile(p, id)

\* only the create-domain and delete-domain requests
NextLifecycle ==
  \/ \E p \in Procs, name \in DomainNames : PostDomain(p, name)
  \/ \E p \in Procs : createDomain(p)
  \/ \E p \in Procs : createDomainConfigSelect(p)
  \/ \E p \in Procs : createDomainConfigInsert(p)
  \/ \E p \in Procs : createDomainConfigCommit(p)
  \/ \E p \in Procs, name \in DomainNames : PostDomainSequelize(p, name)
  \/ \E p \in Procs : PostDomainTransaction(p)
  \/ \E p \in Procs, name \in DomainNames : PostDomainFile(p, name)
  \/ \E p \in Procs : PostDomainFileAdd(p)
  \/ \E p \in Procs, id \in DomainIds : DeleteDomain(p, id)
  \/ \E p \in Procs : deleteDomain(p)
  \/ \E p \in Procs, id \in DomainIds : DeleteDomainFile(p, id)

\* the create-domain requests, with failures of the identity creation
NextCreate ==
  \/ \E p \in Procs, name \in DomainNames : PostDomain(p, name)
  \/ \E p \in Procs : createDomain(p)
  \/ \E p \in Procs : createDomainConfigSelect(p)
  \/ \E p \in Procs : createDomainConfigInsert(p)
  \/ \E p \in Procs : createDomainConfigThrows(p)
  \/ \E p \in Procs : createDomainConfigCommit(p)
  \/ \E p \in Procs, name \in DomainNames : PostDomainSequelize(p, name)
  \/ \E p \in Procs : PostDomainTransaction(p)
  \/ \E p \in Procs : PostDomainTransactionThrows(p)
  \/ \E p \in Procs, name \in DomainNames : PostDomainFile(p, name)
  \/ \E p \in Procs : PostDomainFileAdd(p)
  \/ \E p \in Procs : PostDomainFileAddThrows(p)

\* the names that have an identity
ConfiguredNames == {n \in DomainNames : ConfigsFor(n) # <<>>}

\* identities created, verified and updated
NextVerify ==
  \/ \E p \in Procs, name \in DomainNames : PostDomain(p, name)
  \/ \E p \in Procs : createDomain(p)
  \/ \E p \in Procs : createDomainConfigSelect(p)
  \/ \E p \in Procs : createDomainConfigInsert(p)
  \/ \E p \in Procs : createDomainConfigCommit(p)
  \/ \E p \in Procs, name \in DomainNames : PostDomainSequelize(p, name)
  \/ \E p \in Procs : PostDomainTransaction(p)
  \/ \E p \in Procs, name \in DomainNames : VerifyDomain(p, name)
  \/ \E p \in Procs, id \in DomainIds : VerifyDomainSequelize(p, id)
  \/ \E p \in Procs : VerifyGetConfig(p)
  \/ \E p \in Procs : VerifyUpdate(p)
  \/ \E p \in Procs, name \in ConfiguredNames, status \in VerificationStatuses :
       CallUpdateDomainConfigVerification(p, name, status)

\* sends of verified domains, with concurrent identity updates and domain
\* deletions
NextSign ==
  \/ \E p \in Procs, from \in MailboxAddresses : sendEmailHandler(p, from, SendTo)
  \/ \E p \in Procs : sendCheckDomain(p)
  \/ \E p \in Procs : sendEmail(p)
  \/ \E p \in Procs, ok \in BOOLEAN : sendMailSettled(p, ok)
  \/ \E p \in Procs, dbOk \in BOOLEAN : sendStore(p, dbOk)
  \/ \E p \in Procs, from \in MailboxAddresses : PostSend(p, from, SendTo)
  \/ \E p \in Procs, ok \in BOOLEAN, t \in Clock, r \in Randoms :
       PostSendSettled(p, ok, t, r)
  \/ \E p \in Procs, id \in DomainIds : DeleteDomain(p, id)
  \/ \E p \in Procs : deleteDomain(p)
  \/ \E p \in Procs, id \in DomainIds : DeleteDomainFile(p, id)
  \/ \E p \in Procs, name \in ConfiguredNames, status \in VerificationStatuses :
       CallUpdateDomainConfigVerification(p, name, status)

\* the life of a sending domain: created, given a mailbox, verified, used
NextSend ==
  \/ \E p \in Procs, name \in DomainNames : PostDomain(p, name)
  \/ \E p \in Procs : createDomain(p)
  \/ \E p \in Procs : createDomainConfigSelect(p)
  \/ \E p \in Procs : createDomainConfigInsert(p)
  \/ \E p \in Procs : createDomainConfigCommit(p)
  \/ \E p \in Procs, name \in DomainNames : PostDomainSequelize(p, name)
  \/ \E p \in Procs : PostDomainTransaction(p)
  \/ \E p \in Procs, name \in DomainNames : PostDomainFile(p, name)
  \/ \E p \in Procs : PostDomainFileAdd(p)
  \/ \E p \in Procs, name \in DomainNames : VerifyDomain(p, name)
  \/ \E p \in Procs, id \in DomainIds : VerifyDomainSequelize(p, id)
  \/ \E p \in Procs : VerifyGetConfig(p)
  \/ \E p \in Procs : VerifyUpdate(p)
  \/ \E a \in MailboxAddresses : createEmail(a)
  \/ \E p \in Procs, from \in MailboxAddresses : sendEmailHandler(p, from, SendTo)
  \/ \E p \in Procs : sendCheckDomain(p)
  \/ \E p \in Procs : sendEmail(p)
  \/ \E p \in Procs, ok \in BOOLEAN : sendMailSettled(p, ok)
  \/ \E p \in Procs, dbOk \in BOOLEAN : sendStore(p, dbOk)
  \/ \E p \in Procs, from \in MailboxAddresses : PostSend(p, from, SendTo)
  \/ \E p \in Procs, ok \in BOOLEAN, t \in Clock, r \in Randoms :
       PostSendSettled(p, ok, t, r)

Init ==
  /\ variant \in Variants
  /\ domains = <<>>
  /\ emails = {}
  /\ configs = <<>>
  /\ keyCount = 0
  /\ messages = {}
  /\ nextId = 1
  /\ listener = "none"
  /\ serverSize = 0
  /\ sess = [s \in Sessions |-> IdleSession]
  /\ proc = [p \in Procs |-> IdleProc]
  /\ transporter = NoDkim
  /\ transportLog = {}
  /\ accepted = {}
  /\ nextReq = 1
  /\ postfix = PostfixInstalled
  /\ virtualDomains = <<>>
  /\ dnsRecords = NoRecords
  /\ emailConfig = defaultEmailConfig

SpecDomain == Init /\ [][NextDomain]_vars

SpecSend == Init /\ [][NextSend]_vars

SpecCreate == Init /\ [][NextCreate]_vars

SpecVerify == Init /\ [][NextVerify]_vars

\* the store after both domains have been created and verified and each has
\* been given a mailbox
InitVerified ==
  /\ variant \in Variants
  /\ domains = <<[id |-> 1, name |-> "example.com"],
                 [id |-> 2, name |-> "mathsnap.org"]>>
  /\ emails = MailboxAddresses
  /\ configs =
       IF variant = "file"
         THEN <<newConfig("example.com", 0, 1), newConfig("mathsnap.org", 0, 2)>>
         ELSE <<[newDomainConfig("example.com", 0, 1) EXCEPT
                   !.active = TRUE, !.dkimVerified = "true",
                   !.spfVerified = "true", !.mxVerified = "true"],
                [newDomainConfig("mathsnap.org", 0, 2) EXCEPT
                   !.active = TRUE, !.dkimVerified = "true",
                   !.spfVerified = "true", !.mxVerified = "true"]>>
  /\ keyCount = 2
  /\ messages = {}
  /\ nextId = 3
  /\ listener = "none"
  /\ serverSize = 0
  /\ sess = [s \in Sessions |-> IdleSession]
  /\ proc = [p \in Procs |-> IdleProc]
  /\ transporter = NoDkim
  /\ transportLog = {}
  /\ accepted = {}
  /\ nextReq = 1
  /\ postfix = PostfixInstalled
  /\ virtualDomains = <<>>
  /\ dnsRecords = NoRecords
  /\ emailConfig = defaultEmailConfig

SpecSign == InitVerified /\ [][NextSign]_vars

SpecApply == Init /\ [][NextApply]_vars

SpecVirtual == Init /\ [][NextVirtual]_vars

SpecAlias == Init /\ [][NextAlias]_vars

SpecRename == Init /\ [][NextRename]_vars

SpecRender == Init /\ [][NextRender]_vars

SpecConfig == Init /\ [][NextConfig]_vars

\* the resolver answers as one of the zones
InitDns ==
  /\ variant = "file"
  /\ domains = <<>>
  /\ emails = {}
  /\ configs = <<>>
  /\ keyCount = 0
  /\ messages = {}
  /\ nextId = 1
  /\ listener = "none"
  /\ serverSize = 0
  /\ sess = [s \in Sessions |-> IdleSession]
  /\ proc = [p \in Procs |-> IdleProc]
  /\ transporter = NoDkim
  /\ transportLog = {}
  /\ accepted = {}
  /\ nextReq = 1
  /\ postfix = PostfixInstalled
  /\ virtualDomains = <<>>
  /\ dnsRecords \in Zones
  /\ emailConfig = defaultEmailConfig

SpecDns == InitDns /\ [][NextDns]_vars

\* the mail pipelines and the message routes over the verified store: the
\* sessions deliver well-formed messages within the size limit to addresses
\* of example.com, the requests name a stored message or none
Mailbox == [user |-> "user", domain |-> "example.com"]
Ghost   == [user |-> "ghost", domain |-> "example.com"]
Remote  == [user |-> "user", domain |-> "other.org"]
RequestIds == {m.id : m \in messages} \cup {NoId}

NextMessages ==
  \/ createSMTPServer(TRUE)
  \/ \E s \in Sessions, to \in {Mailbox, Ghost} :
       MailFrom(s, to, Remote, TRUE, 1, FALSE)
  \/ \E s \in Sessions : OnData(s)
  \/ \E s \in Sessions : OnEnd(s)
  \/ \E s \in Sessions : ParsedMySQL(s)
  \/ \E s \in Sessions : LookupMySQL(s, TRUE)
  \/ \E s \in Sessions : StoreMySQL(s, TRUE)
  \/ \E s \in Sessions : AckMySQL(s)
  \/ \E s \in Sessions : ParsedSequelize(s)
  \/ \E s \in Sessions, t \in Clock, r \in Randoms : ParsedFile(s, t, r)
  \/ \E p \in Procs : sendEmailHandler(p, Mailbox, SendTo)
  \/ \E p \in Procs : sendCheckDomain(p)
  \/ \E p \in Procs : sendEmail(p)
  \/ \E p \in Procs : sendMailSettled(p, TRUE)
  \/ \E p \in Procs : sendStore(p, TRUE)
  \/ \E p \in Procs : PostSend(p, Mailbox, SendTo)
  \/ \E p \in Procs, t \in Clock, r \in Randoms : PostSendSettled(p, TRUE, t, r)
  \/ \E p \in Procs, id \in RequestIds : PatchRead(p, Mailbox, id)
  \/ \E p \in Procs : PatchReadUpdate(p)
  \/ \E p \in Procs, id \in RequestIds : DeleteMessage(p, Mailbox, id)
  \/ \E p \in Procs : DeleteMessageDelete(p)
  \/ \E p \in Procs, id \in RequestIds : PatchReadFile(p, Mailbox, id)
  \/ \E p \in Procs, id \in RequestIds : DeleteMessageFile(p, Mailbox, id)

SpecMessages == InitVerified /\ [][NextMessages]_vars

SpecLifecycle == Init /\ [][NextLifecycle]_vars


\* the inbound receiver runs against a store that hosts example.com with the
\* mailbox user@example.com
InitInbound ==
  /\ variant \in Variants
  /\ domains = <<[id |-> 1, name |-> "example.com"]>>
  /\ emails = {[user |-> "user", domain |-> "example.com"]}
  /\ configs = <<>>
  /\ keyCount = 0
  /\ messages = {}
  /\ nextId = 2
  /\ listener = "none"
  /\ serverSize = 0
  /\ sess = [s \in Sessions |-> IdleSession]
  /\ proc = [p \in Procs |-> IdleProc]
  /\ transporter = NoDkim
  /\ transportLog = {}
  /\ accepted = {}
  /\ nextReq = 1
  /\ postfix = PostfixInstalled
  /\ virtualDomains = <<>>
  /\ dnsRecords = NoRecords
  /\ emailConfig = defaultEmailConfig

SpecInbound == InitInbound /\ [][NextInbound]_vars

(***************************************************************************)
(* Properties of the inbound receiver (SpecInbound)                        *)
(***************************************************************************)
Handled(s)    == sess[s].pc \in {"acked", "rejected"}
MessagesOf(s) == {m \in messages : m.origin = <<"smtp", s>>}
\* sent is false, or the record has no sent field (undefined, falsy)
NotSent(m)    == m.sent # "true"

\* C1: in every variant, a session of the configured listener whose payload
\* is well-formed MIME with a To and a From address and is within the size
\* limit has, once it is handled (and the store did not fail), exactly one
\* stored message, with sent = false, whatever its To address is.
C1_InboundStoredOnce ==
  \A s \in Sessions :
    ( /\ listener = "main"
      /\ Handled(s)
      /\ sess[s].wellFormed /\ sess[s].to # NoAddr /\ sess[s].from # NoAddr
      /\ sess[s].size <= ConfiguredMaxMessageSize
      /\ ~sess[s].dbFailed )
    => Cardinality({m \in MessagesOf(s) : NotSent(m)}) = 1

\* C2: a session is acknowledged only with its message persisted, and is
\* failed only with no message persisted, on every listener (the fallback
\* listener included) and for every recipient.
C2_AckOnlyAfterPersist ==
  \A s \in Sessions :
    /\ sess[s].pc = "acked" => MessagesOf(s) # {}
    /\ sess[s].pc = "rejected" => MessagesOf(s) = {}

\* C3: a payload larger than limits.maxMessageSize is never acknowledged and
\* never stored, and its session is failed before the whole payload has been
\* buffered.
C3_OversizeRejected ==
  \A s \in Sessions :
    sess[s].size > ConfiguredMaxMessageSize =>
      /\ sess[s].pc # "acked"
      /\ MessagesOf(s) = {}
      /\ sess[s].buffered < sess[s].size

(***************************************************************************)
(* Properties of the outbound sender (SpecSend)                            *)
(***************************************************************************)
\* request p starts a send in this step
SendStarts(p) ==
  proc'[p].op = "send" /\ proc'[p].rid = nextReq /\ nextReq' = nextReq + 1

\* request p evaluates the domain configuration of its sender in this step
ConfigChecked(p) ==
  IF variant = "file"
    THEN SendStarts(p) /\ proc'[p].from \in emails
    ELSE proc[p].pc = "s_config" /\ proc'[p].pc # "s_config"

HandedToTransport(rid) == \E t \in transportLog : t.rid = rid

\* C4: the send checks sender mailbox, then domain configuration, then the
\* active flag: a request whose sender is unknown is answered "sender not
\* found" whatever the state of its domain; with a known sender, a domain
\* without configuration gives "not configured" and an inactive one gives
\* "not active"; a rejected request is never handed to the transport.
C4_PreconditionOrder ==
  [][\A p \in Procs :
       /\ (SendStarts(p) /\ proc'[p].from \notin emails) =>
            (proc'[p].pc = "done" /\ proc'[p].resp = SenderNotFound)
       /\ ConfigChecked(p) =>
            LET rows == SelectSeq(configs,
                          LAMBDA c : c.domainName = DomainOf(proc'[p].from))
            IN /\ rows = <<>> =>
                    (proc'[p].pc = "done" /\ proc'[p].resp = DomainNotConfigured)
               /\ (rows # <<>> /\ ~rows[1].active) =>
                    (proc'[p].pc = "done" /\ proc'[p].resp = DomainNotActive)
               /\ (rows # <<>> /\ rows[1].active) => proc'[p].pc # "done"
       /\ (proc'[p].op = "send" /\ proc'[p].resp \in Rejections) =>
            \A t \in transportLog' : t.rid # proc'[p].rid
    ]_vars

\* a request from an unknown sender of a domain whose identity is inactive
\* fails the first and the third check: it was answered "sender not found",
\* and the transport was not called
C4_Witness ==
  \E p \in Procs :
    /\ proc[p].op = "send" /\ proc[p].resp = SenderNotFound
    /\ proc[p].from \notin emails
    /\ ConfigsFor(DomainOf(proc[p].from)) # <<>>
    /\ ~Head(ConfigsFor(DomainOf(proc[p].from))).active
    /\ ~HandedToTransport(proc[p].rid)

SendErrors == Rejections \cup {SendFailed}

\* C5: a stored message with sent = true belongs to a send that the
\* transport accepted; a send that ends with an error leaves the stored
\* messages as they were and has no stored message.
C5_SentOnlyIfAccepted ==
  [][/\ \A m \in messages' :
          m.sent = "true" => (m.origin[1] = "send" /\ m.origin[2] \in accepted')
     /\ \A p \in Procs :
          (proc'[p].op = "send" /\ proc'[p].pc = "done"
             /\ proc'[p].resp \in SendErrors) =>
            /\ \A m \in messages' : m.origin # <<"send", proc'[p].rid>>
            /\ proc'[p] # proc[p] => messages' = messages
    ]_vars

\* a send whose transport call failed was answered with the error, and no
\* message is stored for it
C5_Witness ==
  \E p \in Procs :
    /\ proc[p].op = "send" /\ proc[p].resp = SendFailed
    /\ HandedToTransport(proc[p].rid) /\ proc[p].rid \notin accepted
    /\ \A m \in messages : m.origin # <<"send", proc[p].rid>>

\* C6: a send that is answered with success has exactly one stored message,
\* with sent = true, status "sent" and the from and to of the request.
C6_SentMessageStored ==
  \A p \in Procs :
    (proc[p].op = "send" /\ proc[p].resp = SentOK) =>
      /\ Cardinality({m \in messages : m.origin = <<"send", proc[p].rid>>}) = 1
      /\ \A m \in messages :
           m.origin = <<"send", proc[p].rid>> =>
             /\ m.sent = "true"
             /\ m.status = "sent"
             /\ m.fromEmail = proc[p].from
             /\ m.toEmail = proc[p].to

AllVerified(c) ==
  c.active /\ c.dkimVerified = "true" /\ c.spfVerified = "true"
           /\ c.mxVerified = "true"

NoneVerified(c) ==
  ~c.active /\ c.dkimVerified = "false" /\ c.spfVerified = "false"
            /\ c.mxVerified = "false"

\* C7: the identity that a create-domain request creates is inactive with
\* its three flags false; when a verify request completes, the identity is
\* active with its three flags true; a message is handed to the transport
\* only for a sender whose domain has been verified.
C7_VerifyLifecycle ==
  [][/\ \A p \in Procs :
          (proc'[p].op = "postDomain" /\ proc'[p].resp = "201"
             /\ proc'[p] # proc[p]) =>
            \A i \in DOMAIN configs' :
              (i \notin DOMAIN configs /\ configs'[i].domainName = proc'[p].name)
                => NoneVerified(configs'[i])
     /\ \A p \in Procs :
          (proc'[p].op = "verify" /\ proc'[p].resp = "200"
             /\ proc'[p] # proc[p]) =>
            \A i \in DOMAIN configs' :
              configs'[i].domainName = proc'[p].name => AllVerified(configs'[i])
     /\ \A t \in transportLog' \ transportLog :
          \E i \in DOMAIN configs :
            configs[i].domainName = DomainOf(t.from) /\ AllVerified(configs[i])
    ]_vars

(***************************************************************************)
(* Properties of the identity store (SpecDomain, SpecLifecycle)            *)
(***************************************************************************)
\* C8: a call of createDomainConfig / createForDomain for a name that has an
\* identity returns that identity (same selector, same keys), generates no
\* keys and leaves one identity for the name.
C8_CreateIdempotent ==
  [][\A p \in Procs :
       (proc'[p].direct /\ proc'[p].pc = "done" /\ proc'[p] # proc[p]
          /\ ConfigsFor(proc'[p].name) # <<>>) =>
         /\ proc'[p].row = Head(ConfigsFor(proc'[p].name))
         /\ keyCount' = keyCount
         /\ Len(SelectSeq(configs', LAMBDA c : c.domainName = proc'[p].name)) = 1
    ]_vars

C10_IdentityIffDomain ==
  (\A p \in Procs : Quiescent(p)) =>
    \A n \in DomainNames :
      Len(ConfigsFor(n)) = (IF getDomainByName(n) THEN 1 ELSE 0)

(***************************************************************************)
(* Atomicity of domain and identity creation (SpecCreate)                  *)
(***************************************************************************)
\* the identity creation of create-domain request p fails in this step
IdentityCreationFails(p) ==
  /\ proc[p].op = "postDomain"
  /\ proc[p].pc \in {"cdc_select", "cdc_insert", "sq_tx", "f_resolved"}
  /\ proc[p].pc = "sq_tx" => ~getDomainByName(proc[p].name)
  /\ proc'[p].pc = "done"
  /\ proc'[p].resp = "500 Failed to add domain"

\* C11: when the identity creation of a create-domain request fails, the
\* request fails and no domain of that name is persisted afterwards.
C11_DomainIdentityAtomic ==
  [][\A p \in Procs :
       IdentityCreationFails(p) =>
         \A i \in DOMAIN domains' : domains'[i].name # proc[p].name
    ]_vars

(***************************************************************************)
(* Frame of the verification update (SpecVerify)                           *)
(***************************************************************************)
\* the value of a flag after an update that supplies new (or nothing)
Updated(old, new) == IF new # Absent THEN new ELSE old

\* C12: updateDomainConfigVerification changes, in the identity of the
\* named domain, exactly the flags that the call supplies and leaves every
\* other identity as it is; no update and no verify changes the domain name,
\* the selector or the key material of an identity.
C12_PartialUpdate ==
  [][/\ \A i \in DOMAIN configs :
          /\ i \in DOMAIN configs'
          /\ configs'[i].domainName = configs[i].domainName
          /\ configs'[i].dkimSelector = configs[i].dkimSelector
          /\ configs'[i].dkimKey = configs[i].dkimKey
     /\ \A p \in Procs, status \in VerificationStatuses :
          CallUpdateDomainConfigVerification(p, proc'[p].name, status) =>
            \A i \in DOMAIN configs :
              IF configs[i].domainName = proc'[p].name
                THEN /\ configs'[i].dkimVerified =
                          Updated(configs[i].dkimVerified, status.dkimVerified)
                     /\ configs'[i].spfVerified =
                          Updated(configs[i].spfVerified, status.spfVerified)
                     /\ configs'[i].mxVerified =
                          Updated(configs[i].mxVerified, status.mxVerified)
                     /\ configs'[i].active =
                          IF status.active # Absent THEN status.active = "true"
                          ELSE configs[i].active
                ELSE configs'[i] = configs[i]
    ]_vars

\* an update that supplied dkimVerified alone was applied to a verified
\* identity: the other three flags are still as verify left them
C12_Witness ==
  \E p \in Procs :
    /\ proc[p].op = "updateVerification" /\ proc[p].pc = "done"
    /\ getDomainConfigByName(proc[p].name) # NoConfig
    /\ getDomainConfigByName(proc[p].name).dkimVerified = "false"
    /\ getDomainConfigByName(proc[p].name).spfVerified = "true"
    /\ getDomainConfigByName(proc[p].name).mxVerified = "true"
    /\ getDomainConfigByName(proc[p].name).active

(***************************************************************************)
(* DKIM material of the messages handed to the transport (SpecSign)        *)
(***************************************************************************)
\* the signing options made of identity c
DkimOf(c) ==
  [domainName |-> c.domainName, keySelector |-> c.dkimSelector,
   privateKey |-> c.dkimKey]

\* C13: a message is handed to the transport signed with the selector and
\* the private key of the identity that its sender domain has at that
\* moment: never unsigned, never with the material of another domain.
C13_SignedWithOwnIdentity ==
  [][\A t \in transportLog' \ transportLog :
       /\ getDomainConfigByName(DomainOf(t.from)) # NoConfig
       /\ t.dkim = DkimOf(getDomainConfigByName(DomainOf(t.from)))
    ]_vars

(***************************************************************************)
(* Message retrieval (GET /:email, GET /api/messages/:email)               *)
(***************************************************************************)
NotFound == [status |-> 404, messages |-> {}]

\* messageModel.getMessagesForEmail: WHERE to_email = ?; the file-backed
\* route reads the files of the directory named after the address
getMessagesForEmail(email) ==
  IF variant = "file"
    THEN {m \in messages : m.toEmail = email /\ m.folder = "inbox"}
    ELSE {m \in messages : m.toEmail = email}

\* the route: 404 'Email not found' unless the mailbox exists
GetMessages(email) ==
  IF ~getEmailByAddress(email) THEN NotFound
  ELSE [status |-> 200, messages |-> getMessagesForEmail(email)]

\* the address is of a hosted domain and has no mailbox
HostedWithoutMailbox(address) ==
  /\ address # NoAddr
  /\ getDomainByName(DomainOf(address))
  /\ ~getEmailByAddress(address)

\* C14: once a session addressed to an address of a hosted domain that has
\* no mailbox (ghost@example.com) is acknowledged, a stored message with
\* that To address exists and the retrieval route for the address returns
\* it.
C14_GhostMessageRetrievable ==
  \A s \in Sessions :
    (sess[s].pc = "acked" /\ HostedWithoutMailbox(sess[s].to)) =>
      \E m \in MessagesOf(s) :
        /\ m.toEmail = sess[s].to
        /\ m \in GetMessages(sess[s].to).messages

\* C16: with several sessions in progress at once, every session that the
\* configured listener acknowledged for a recipient of a hosted domain has
\* a stored message of its own, holding that session's From and To: no
\* record is replaced or lost because of another session, also when two
\* messages to one recipient get their storage ids at the same time.
C16_SessionsIsolated ==
  \A s \in Sessions :
    (listener = "main" /\ sess[s].pc = "acked" /\ isValidEmail(sess[s].to)) =>
      \E m \in MessagesOf(s) :
        m.fromEmail = sess[s].from /\ m.toEmail = sess[s].to

(***************************************************************************)
(* Properties of the stored messages (SpecMessages)                        *)
(***************************************************************************)
\* request p of kind op, naming the id of message m, completes in this step
Completes(p, op, m) ==
  /\ proc'[p].op = op /\ proc'[p].id = m.id
  /\ proc'[p].pc = "done" /\ proc[p].pc # "done"

\* C15: a stored message is changed by mark-as-read only, which sets read to
\* true and changes nothing else; it is removed by a delete request only;
\* no step of the inbound or outbound pipeline changes or removes a message
\* that exists.
C15_MessageImmutable ==
  [][\A m \in messages :
       \/ m \in messages'
       \/ /\ [m EXCEPT !.read = "true"] \in messages'
          /\ \E p \in Procs : Completes(p, "markRead", m)
       \/ /\ \A n \in messages' : FilePath(n) # FilePath(m)
          /\ \E p \in Procs : Completes(p, "deleteMessage", m)]_vars

(***************************************************************************)
(* Properties of the apply functions (SpecApply)                           *)
(***************************************************************************)
\* C17: a step of an apply call (applyPostfixConfig or
\* applyVirtualDomainsConfig) whose backup has not succeeded overwrites
\* neither main.cf nor the maps under /etc/postfix and does not reload or
\* restart the MTA; a call whose backup fails ends there.
C17_BackupBeforeOverwrite ==
  [][\A p \in Procs :
       (proc'[p] # proc[p] /\ ~proc'[p].apply.backedUp) =>
         /\ postfix'.mainCf = postfix.mainCf
         /\ postfix'.maps = postfix.maps
         /\ postfix'.reloads = postfix.reloads
         /\ (proc[p].pc \in {"ap_backup", "av_backup"} =>
               proc'[p].pc = "done")]_vars

C17_Witness ==
  \E p, q \in Procs :
    /\ proc[p].op = "applyVirtualDomainsConfig" /\ proc[p].pc = "done"
    /\ proc[p].apply.stage = "backup"
    /\ proc[q].op = "applyPostfixConfig" /\ proc[q].pc = "done"
    /\ proc[q].apply.stage = "applied"
    /\ postfix.mainCf = postfixConfig(proc[q].name)
    /\ postfix.reloads = 1

FailedAt(p, stage) ==
  /\ proc[p].op = "applyPostfixConfig" /\ proc[p].pc = "done"
  /\ proc[p].apply.stage = stage

\* C18: the results of two applyPostfixConfig calls that failed at different
\* stages (backup, copy, reload or restart) differ.
C18_StageIdentified ==
  \A p, q \in Procs : \A s1, s2 \in {"backup", "copy", "reload"} :
    (s1 # s2 /\ FailedAt(p, s1) /\ FailedAt(q, s2)) =>
      proc[p].apply.result # proc[q].apply.result

\* C19: while an applyPostfixConfig call is between its first and its last
\* step no other applyPostfixConfig call takes a step, and the copy step of
\* a call puts into main.cf the configuration rendered for that call's
\* domain.
C19_AppliesSerialized ==
  [][\A p \in Procs :
       /\ (proc[p].op = "applyPostfixConfig" /\ proc[p].pc \in ApplyPcs) =>
            \A q \in Procs \ {p} :
              proc'[q].op = "applyPostfixConfig" => proc'[q] = proc[q]
       /\ (proc[p].pc = "ap_copy" /\ proc'[p].pc = "ap_reload") =>
            postfix'.mainCf = postfixConfig(proc[p].name)]_vars

C19_Witness ==
  \E p, q \in Procs :
    /\ p < q
    /\ proc[p].op = "applyPostfixConfig" /\ proc[p].apply.stage = "applied"
    /\ proc[q].op = "applyPostfixConfig" /\ proc[q].apply.stage = "applied"
    /\ proc[p].name # proc[q].name
    /\ postfix.mainCf = postfixConfig(proc[q].name)
    /\ postfix.reloads = 2

(***************************************************************************)
(* Properties of the virtual-domain set (SpecVirtual)                      *)
(***************************************************************************)
\* the mailboxes of the set, each with the index of its entry and its place
Boxes ==
  UNION {{<<i, k>> : k \in DOMAIN virtualDomains[i].mailboxes} :
           i \in DOMAIN virtualDomains}

ApplyReturns(p) ==
  /\ proc[p].op = "applyPostfixConfig"
  /\ proc[p].pc \in ApplyPcs
  /\ proc'[p].pc = "done"

\* C24: when an applyPostfixConfig call that has written its
\* /tmp/postfix_config_<timestamp> file returns, with success or after a
\* failed copy or a failed reload or restart, that file is gone.
C24_TempFileRemoved ==
  [][\A p \in Procs :
       (ApplyReturns(p) /\ proc[p].pc \in {"ap_copy", "ap_reload"}) =>
         \A f \in postfix'.tmp : f.name # proc[p].apply.tempFile]_vars

\* C30: when applyPostfixConfig returns success = false, at whatever step it
\* failed, /etc/postfix/main.cf has the content it had before the call (the
\* content the call's own backup holds, when the backup was taken).
C30_FailureKeepsMainCf ==
  [][\A p \in Procs :
       (ApplyReturns(p) /\ ~proc'[p].apply.result.success) =>
         /\ postfix'.mainCf = postfix.mainCf
         /\ proc[p].apply.backedUp => postfix'.mainCf = postfix'.backup]_vars

(***************************************************************************)
(* Properties of the rendered configuration (SpecRender)                   *)
(***************************************************************************)
\* reading a field back: the value of the first line with that key
readField(text, key) ==
  IF \E i \in DOMAIN text : text[i].key = key
    THEN text[CHOOSE i \in DOMAIN text :
                /\ text[i].key = key
                /\ \A j \in 1..(i - 1) : text[j].key # key].value
    ELSE <<>>

Rendered(p) ==
  /\ proc[p].op = "configurePostfix" /\ proc[p].pc = "done"
  /\ proc[p].resp = "success"

\* C21, as stated: the myhostname field and the mydomain field of the text
\* rendered for a domain each read back as the domain name.
C21_RoundTrip ==
  \A p \in Procs : Rendered(p) =>
    /\ readField(proc[p].apply.content, "mydomain") = proc[p].domain
    /\ readField(proc[p].apply.content, "myhostname") = proc[p].domain

\* C21, amended: the mydomain field reads back as the domain name; the
\* myhostname field reads back as a host name followed by "." and the
\* domain name.
C21_RoundTripAmended ==
  \A p \in Procs : Rendered(p) =>
    LET host == readField(proc[p].apply.content, "myhostname")
        name == proc[p].domain
    IN /\ readField(proc[p].apply.content, "mydomain") = name
       /\ Len(host) > Len(name) + 1
       /\ SubSeq(host, Len(host) - Len(name), Len(host)) = <<".">> \o name

C21_Witness ==
  \E p, q \in Procs :
    /\ Rendered(p) /\ Rendered(q)
    /\ proc[p].domain = <<"mail", ".", "example.com">>
    /\ Len(proc[p].apply.content) > Len(proc[q].apply.content)
    /\ readField(proc[q].apply.content, "myhostname") =
         <<"mail", ".", "mathsnap.org">>

\* C26: a call of GET /api/domains/configs of the file-backed server leaves
\* the stored domain configurations, and the number of generated keys, as
\* they were.
C26_ListConfigsReadOnly ==
  [][\A p \in Procs :
       (proc[p].pc = "idle" /\ proc'[p].op = "getConfigs") =>
         /\ configs' = configs
         /\ keyCount' = keyCount]_vars

(***************************************************************************)
(* Properties of the DNS check (SpecDns)                                   *)
(***************************************************************************)
Checked(p) == proc[p].op = "checkDNS" /\ proc[p].pc = "done"

\* the answers the resolver gave to the queries of a check
AnswersOf(check, domain) ==
  CASE check = "mx"    -> {resolve(Query("MX", domain))}
    [] check = "spf"   -> {resolve(Query("TXT", domain))}
    [] check = "dmarc" -> {resolve(Query("TXT", dmarcName(domain)))}
    [] check = "ptr"   -> {resolve(Query("PTR", serverIP))}
    [] check = "dkim"  -> {resolve(Query("TXT", dkimName(selectors[i], domain))) :
                             i \in DOMAIN selectors}

Attempted(r) == {c \in CheckNames : r[c].status # "unchecked"}
Passed(r)    == {c \in CheckNames : r[c].status = "ok"}

\* C22: the healthScore of a result is the integer nearest to
\* 100 * passed / attempted (halves upwards), where attempted counts the checks
\* whose status is not 'unchecked' and passed those with status 'ok'; it is
\* between 0 and 100; and when every resolver call failed the call answered
\* with a result whose healthScore is 0.
C22_HealthScore ==
  \A p \in Procs : Checked(p) =>
    LET r == proc[p].results
        attempted == Cardinality(Attempted(r))
        passed == Cardinality(Passed(r))
    IN /\ r.healthScore \in 0..100
       /\ attempted > 0 =>
            /\ 2 * r.healthScore * attempted <= 200 * passed + attempted
            /\ 2 * r.healthScore * attempted > 200 * passed - attempted
       /\ attempted = 0 => r.healthScore = 0
       /\ (\A c \in CheckNames : \A a \in AnswersOf(c, proc[p].domain) : a.code # "") =>
            /\ proc[p].resp = "200"
            /\ r.healthScore = 0

C22_Witness ==
  \E p, q \in Procs :
    /\ Checked(p) /\ Checked(q)
    /\ \A c \in CheckNames : \A a \in AnswersOf(c, proc[p].domain) : a.code # ""
    /\ \E c \in CheckNames : proc[p].results[c].status = "error"
    /\ proc[p].results.healthScore = 0
    /\ proc[q].results.healthScore = 60
    /\ \E c \in CheckNames : proc[q].results[c].status = "error"

\* C23: in each of the five checks, a check all of whose resolver calls
\* answered not-found has status 'missing', and a check all of whose resolver
\* calls failed with a transient error has status 'error'.
C23_FailureKinds ==
  \A p \in Procs : Checked(p) =>
    \A c \in CheckNames :
      /\ (\A a \in AnswersOf(c, proc[p].domain) : a.code = "ENOTFOUND") =>
           proc[p].results[c].status = "missing"
      /\ (\A a \in AnswersOf(c, proc[p].domain) : a.code = "ETIMEOUT") =>
           proc[p].results[c].status = "error"

\* C27: when the DKIM TXT record of a generated identity is published under
\* the generated selector, at <dkimSelector>._domainkey.<domain>, the dkim
\* check of that domain has status 'ok'.
C27_GeneratedSelectorFound ==
  \A p \in Procs : Checked(p) =>
    \A t \in Clock :
      resolve(Query("TXT", dkimName(dkimSelector(t), proc[p].domain))).records
          = <<dkimRecord>> =>
        proc[p].results.dkim.status = "ok"

(***************************************************************************)
(* Properties of the mail-server configuration (SpecConfig)                *)
(***************************************************************************)
\* the scalar fields of a configuration: <<path, value>>
RECURSIVE Leaves(_, _)
Leaves(item, path) ==
  IF isObject(item)
    THEN UNION {Leaves(item.fields[i].item, Append(path, item.fields[i].key)) :
                  i \in DOMAIN item.fields}
    ELSE {<<path, item.value>>}

Paths(item) == {leaf[1] : leaf \in Leaves(item, <<>>)}

Updated200(p) ==
  /\ proc[p].op = "updateEmailConfig" /\ proc[p].pc = "done"
  /\ proc[p].resp = "200"

\* C28: when two updateEmailConfig calls that change disjoint fields have
\* both completed, and they were the only calls, the stored configuration
\* has the new values of both and every other field has its initial value.
C28_DisjointUpdatesBothApply ==
  \A p, q \in Procs :
    (/\ p # q
     /\ Updated200(p) /\ Updated200(q)
     /\ \A r \in Procs \ {p, q} : proc[r].pc = "idle"
     /\ Paths(proc[p].newConfig) \cap Paths(proc[q].newConfig) = {}) =>
      /\ Leaves(proc[p].newConfig, <<>>) \subseteq Leaves(emailConfig, <<>>)
      /\ Leaves(proc[q].newConfig, <<>>) \subseteq Leaves(emailConfig, <<>>)
      /\ \A leaf \in Leaves(defaultEmailConfig, <<>>) :
           leaf[1] \notin Paths(proc[p].newConfig) \cup Paths(proc[q].newConfig)
             => leaf \in Leaves(emailConfig, <<>>)

(***************************************************************************)
(* Properties of the aliases (SpecAlias)                                   *)
(***************************************************************************)
\* some entry of the list has an alias with that address
HasAlias(list, aliasEmail) ==
  \E i \in DOMAIN list : \E k \in DOMAIN list[i].aliases :
    list[i].aliases[k].alias = aliasEmail

\* C29: removeAlias(aliasEmail), called when a successful createAlias has
\* stored an alias with that address, succeeds and leaves no alias with that
\* address in any virtual domain.
C29_AliasRoundTrip ==
  [][\A p \in Procs :
       (/\ proc[p].pc = "idle" /\ proc'[p].op = "removeAlias"
        /\ HasAlias(virtualDomains, proc'[p].aliasEmail)) =>
         /\ proc'[p].resp = "success"
         /\ ~HasAlias(virtualDomains', proc'[p].aliasEmail)]_vars

(***************************************************************************)
(* Properties of the rename (SpecRename)                                   *)
(***************************************************************************)
\* C25: when a PUT /:id commits the rename of a domain that has an identity,
\* the new name has exactly one identity, the one the old name had, and no
\* identity remains under the old name.
C25_IdentityFollowsRename ==
  [][\A p \in Procs :
       (/\ proc[p].op = "putDomain" /\ proc[p].pc = "put_tx"
        /\ proc'[p].resp = "200"
        /\ domains' # domains
        /\ ConfigsFor(NameOfId(proc[p].id)) # <<>>) =>
         /\ SelectSeq(configs', LAMBDA c : c.domainName = proc[p].name) =
              <<[Head(ConfigsFor(NameOfId(proc[p].id))) EXCEPT
                   !.domainName = proc[p].name]>>
         /\ SelectSeq(configs', LAMBDA c :
                        c.domainName = NameOfId(proc[p].id)) = <<>>]_vars

C25_Witness ==
  \E p, q \in Procs :
    /\ proc[q].op = "postDomain" /\ proc[q].resp = "201"
    /\ proc[p].op = "putDomain" /\ proc[p].resp = "200"
    /\ proc[p].name \notin {"", proc[q].name}
    /\ getDomainByName(proc[p].name) /\ ~getDomainByName(proc[q].name)
    /\ ConfigsFor(proc[p].name) =
         <<[proc[q].row EXCEPT !.domainName = proc[p].name]>>
    /\ ConfigsFor(proc[q].name) = <<>>
====
